---- MODULE Spec2Model ----
(***************************************************************************)
(* Grok Zephyr: the host side of the frame pipeline (GrokZephyrApp,        *)
(* WebGPUContext, RenderPipeline), the camera controller and the orbital   *)
(* position formula of host and kernel, as state machines.                 *)
(*                                                                         *)
(* Lengths are in metres (km * 1000) and unit vectors / sines are scaled   *)
(* by 1000, so that the floating-point arithmetic of the source becomes    *)
(* integer arithmetic.  Angles of the camera are in quarter degrees, the   *)
(* unit one pixel of pointer movement makes (MOUSE_SENSITIVITY = 0.25).    *)
(***************************************************************************)
EXTENDS Integers, Sequences, FiniteSets, TLC

VARIABLES
  \* ---- GrokZephyrApp (src/src/main.ts)
  initPc,        \* position of GrokZephyrApp.initialize: "new", "awaitCtx", "done", "failed"
  appContext,    \* this.context   # null
  appBuffers,    \* this.buffers   # null
  appPipeline,   \* this.pipeline  # null
  earthBuffers,  \* this.earthVertexBuffer and this.earthIndexBuffer # null
  isRunning,     \* this.isRunning
  rafPending,    \* number of pending requestAnimationFrame callbacks
  rafLatest,     \* the callback this.animationId names is still pending
  errorShown,    \* the #error element is displayed (UIManager.showError / hideError)
  destroyed,     \* destroy() has been called
  \* ---- WebGPUContext (src/src/core/WebGPUContext.ts)
  ctxPc,         \* position of the WebGPUContext.initialize in flight, or "idle"
  ctxCaller,     \* who called it: "app" (GrokZephyrApp.initialize) or "lost" (lostHandler)
  ctxDevice,     \* this.device: a device id, 0 for null
  ctxAdapter,    \* this.adapter # null
  ctxCanvasCtx,  \* this.context # null
  devices,       \* every device handed out so far: id -> "live" | "lost" | "destroyed"
  ctxInitCalls,  \* calls of WebGPUContext.initialize so far
  lostUnexpected,\* devices lost so far for a reason other than 'destroyed'
  ctxFailed,     \* the last WebGPUContext.initialize to end ended by a throw
  \* ---- canvas
  clientSize,    \* <<clientWidth * dpr, clientHeight * dpr>>, floored
  canvasSize,    \* <<canvas.width, canvas.height>>
  resizes,       \* changes of clientSize so far
  \* ---- RenderPipeline (src/src/physics/Propagator.ts, from line 829)
  rpPipelines,   \* this.pipelines # null
  rpBindGroups,  \* this.bindGroups: bind group -> the resources it binds, or Null
  rpTargets,     \* this.renderTargets: target -> texture id, or Null
  rpSize,        \* <<this.width, this.height>>
  texNext,       \* id of the next texture created
  texDestroyed,  \* textures destroy() was called on, as <<target, id>>
  \* ---- SatelliteGPUBuffer
  bufSet,        \* this.buffers # null
  elemWrites,    \* writes to the orbital-element buffer so far (host uploads and kernel
                 \* write accesses), counted up to 2
  \* ---- the frame last run by render()
  frameStages,   \* the stages it performed, in order
  framePasses,   \* the passes it encoded, in order
  frameSubmitted,\* it submitted its command buffer
  frameStale,    \* resources it encoded a pass against that were destroyed
  frameThrew,    \* it ended by an exception
  \* ---- CameraController (src/src/camera/CameraController.ts)
  currentMode,   \* this.currentMode
  modeIndex,     \* this.modeIndex
  cameraAngles,  \* this.cameraAngles: yaw, pitch (quarter degrees), distance (km)
  godView,       \* this.godView: yaw, pitch (milliradians), distance (km)
  mouse,         \* this.mouse: down, lastX, lastY
  keys,          \* the keys of this.keys that are true
  fleetOffset,   \* this.fleetOffset, in metres
  lastOp,        \* the last operation on the controller: "none", "input",
                 \* "setViewMode" or "calculateCamera"
  \* ---- the last call of calculateCamera, while no other operation has followed it
  camOut,        \* the CameraState it returned, or Null
  camTime,       \* its time argument
  camRepeat,     \* "same" / "differs": it followed a call with the same time with no
                 \* operation between and returned the same / another CameraState
  camChanged,    \* the controller fields it changed
  camCallsLeft,  \* calls of calculateCamera the controller's client still makes
  \* ---- one body of the fleet, on host and device
  orbElem,       \* its orbital element: raan, inclination, meanAnomaly0, shellData
  kernelTime,    \* uni.time of the last dispatch of the propagation kernel
  satPos,        \* sat_pos[i] after it, or Null
  trackTime,     \* time of the last calculateSatellitePosition
  trackPos,      \* what it returned, or Null
  \* ---- the uniform buffer and the vertex stage of the satellite pass
  uni,           \* the uniform buffer as writeUniforms last wrote it, or Null
  vsBody,        \* sat_pos[ii].xyz of the instance the vertex stage last ran for, or Null
  vsOut,         \* what the vertex stage returned for it, or Null
  lastTime,      \* GrokZephyrApp.lastTime, in milliseconds
  \* ---- the beam buffer and the beam kernel
  beams,         \* the beam buffer: index -> intensity (start.w, scaled by 1000) and the
                 \* body whose position start.xyz holds (-1: none)
  beamLog,       \* the dispatch of the beam kernel in flight: lane -> what it read and wrote
  \* ---- SatelliteGPUBuffer.generateOrbitalElements
  gen,           \* the loops of generateOrbitalElements: plane, sat, the plane's inclination
  elemData,      \* this.orbitalElementData, as far as it is filled: the elements in
                 \* index order
  \* ---- the listeners of the canvas and the mode-change callback
  dragHeld,      \* the events so far: a mousedown of the primary button on the canvas
                 \* with no mouseup since
  modeChange,    \* what the last call of the mode-change callback of main.ts showed:
                 \* mode, name, altitude and the button made active (Null: no call yet)
  \* ---- the position buffers of SatelliteGPUBuffer and their bindings
  posPair,       \* a SatelliteGPUBuffer: its config, whether initialize() has created
                 \* this.buffers, and the current flag of a pair
  posBound,      \* the position buffer in the compute and the satellites bind group
                 \* (Null: createBindGroups not yet run)
  posData,       \* buffer -> the frame whose positions it holds (0: none)
  pairFrames,    \* frames run on the position buffers
  pairSwaps,     \* calls of swapBuffers so far
  posRead        \* what the last readbackPositions() returned: Null (also: no call
                 \* yet), or the frame whose positions it copied

appVars == <<initPc, appContext, appBuffers, appPipeline, earthBuffers, isRunning,
             rafPending, rafLatest, errorShown, destroyed>>
ctxVars == <<ctxPc, ctxCaller, ctxDevice, ctxAdapter, ctxCanvasCtx, devices,
             ctxInitCalls, lostUnexpected, ctxFailed>>
canvasVars == <<clientSize, canvasSize, resizes>>
rpVars == <<rpPipelines, rpBindGroups, rpTargets, rpSize, texNext, texDestroyed>>
frameVars == <<frameStages, framePasses, frameSubmitted, frameStale, frameThrew>>
ctlVars == <<cameraAngles, godView, mouse, keys, fleetOffset, currentMode, modeIndex>>
camVars == <<camOut, camTime, camRepeat, camChanged, camCallsLeft>>
orbitVars == <<orbElem, kernelTime, satPos, trackTime, trackPos>>
drawVars == <<uni, vsBody, vsOut>>
beamVars == <<beams, beamLog>>
genVars == <<gen, elemData>>
pairVars == <<posPair, posBound, posData, pairFrames, pairSwaps, posRead>>
partVars == <<dragHeld, modeChange, pairVars>>
gpuVars == <<drawVars, lastTime, beamVars, genVars, partVars>>
vars == <<appVars, ctxVars, canvasVars, rpVars, bufSet, elemWrites, frameVars, ctlVars, lastOp, camVars,
          orbitVars, gpuVars>>

Null == [null |-> TRUE]

\* the position buffers a SatelliteGPUBuffer can hold, and none of them written
PositionBuffers == {"single", "read", "write"}
NoPositions == [b \in PositionBuffers |-> 0]

\* new SatelliteGPUBuffer(context, config), before initialize()
NewPositionBuffers(doubleBuffer, enableReadback) ==
  [doubleBuffer |-> doubleBuffer, enableReadback |-> enableReadback, created |-> FALSE,
   current |-> "read"]

\* ---- bounds of the model
MaxDim == 3          \* client widths are 1..MaxDim, in units of 150 pixels
MaxResizes == 2      \* changes of the client size
MaxDevices == 2      \* devices the adapter hands out
\* the sizes of the fleet and of the beam kernel, scaled down: in the source
\* NUM_SATELLITES is 1048576, SATELLITE_STRIDE 16, MAX_BEAMS 65536 and the workgroup
\* size 256, so that MAX_BEAMS * SATELLITE_STRIDE = NUM_SATELLITES and the lanes
\* dispatched are MAX_BEAMS; here there are beams past the last body and lanes past
\* the last beam
NUM_SATELLITES == 8
SATELLITE_STRIDE == 2
MAX_BEAMS == 6
BEAM_WORKGROUP_SIZE == 4
\* the orbital planes, 1024 in the source, each of NUM_SATELLITES / NUM_PLANES bodies
NUM_PLANES == 2
SATELLITES_PER_PLANE == NUM_SATELLITES \div NUM_PLANES

\* the client sizes: the height stays at 150 pixels
Sizes == (1..MaxDim) \X {1}
\* frame times, in seconds
FrameTimes == {0, 1000}
\* the size of a canvas element nobody has sized yet (300 x 150), in units of 150
DefaultCanvasSize == <<2, 1>>

\* ------------------------------------------------------------------------
\* RenderPipeline
\* ------------------------------------------------------------------------

\* a buffer of the SatelliteBufferSet as a resource (buffers are never recreated)
Buf(name) == <<name, 0>>

\* createRenderTargets: four fresh textures
CreateRenderTargets(next) ==
  [hdr |-> next, depth |-> next + 1, bloomA |-> next + 2, bloomB |-> next + 3]

TargetTextures(t) ==
  IF t = Null THEN {}
  ELSE {<<"hdr", t.hdr>>, <<"depth", t.depth>>, <<"bloomA", t.bloomA>>, <<"bloomB", t.bloomB>>}

\* variant of createBindGroups whose vertical blur samples bloomA, the target it
\* renders into
CreateBindGroups_verticalReadsA(pipelines, t, old) ==
  IF ~pipelines \/ t = Null THEN old
  ELSE [compute         |-> {Buf("uniforms"), Buf("orbitalElements"), Buf("positions")},
        beamCompute     |-> {Buf("uniforms"), Buf("positions"), Buf("beams")},
        stars           |-> {Buf("uniforms")},
        earth           |-> {Buf("uniforms")},
        atmosphere      |-> {Buf("uniforms")},
        satellites      |-> {Buf("uniforms"), Buf("positions")},
        beam            |-> {Buf("uniforms"), Buf("beams")},
        groundTerrain   |-> {Buf("uniforms")},
        bloomThreshold  |-> {<<"hdr", t.hdr>>},
        bloomHorizontal |-> {Buf("bloomUniformsH"), <<"bloomA", t.bloomA>>},
        bloomVertical   |-> {Buf("bloomUniformsV"), <<"bloomA", t.bloomA>>},
        composite       |-> {<<"hdr", t.hdr>>, <<"bloomA", t.bloomA>>}]

\* createBindGroups: every bind group is rebuilt, against the targets of the moment;
\* nothing changes when the pipelines or the targets are missing
CreateBindGroups(pipelines, t, old) ==
  IF ~pipelines \/ t = Null THEN old
  ELSE [compute         |-> {Buf("uniforms"), Buf("orbitalElements"), Buf("positions")},
        beamCompute     |-> {Buf("uniforms"), Buf("positions"), Buf("beams")},
        stars           |-> {Buf("uniforms")},
        earth           |-> {Buf("uniforms")},
        atmosphere      |-> {Buf("uniforms")},
        satellites      |-> {Buf("uniforms"), Buf("positions")},
        beam            |-> {Buf("uniforms"), Buf("beams")},
        groundTerrain   |-> {Buf("uniforms")},
        bloomThreshold  |-> {<<"hdr", t.hdr>>},
        bloomHorizontal |-> {Buf("bloomUniformsH"), <<"bloomA", t.bloomA>>},
        bloomVertical   |-> {Buf("bloomUniformsV"), <<"bloomB", t.bloomB>>},
        composite       |-> {<<"hdr", t.hdr>>, <<"bloomA", t.bloomA>>}]

\* the RenderPipeline's fields as one record
RpState == [pipelines |-> rpPipelines, bindGroups |-> rpBindGroups, targets |-> rpTargets,
            size |-> rpSize, texNext |-> texNext, texDestroyed |-> texDestroyed]

\* RenderPipeline.initialize(width, height); device = 0 makes getDevice() throw
\* in createPipelines, after width and height are stored
RpInitialize(rp, size, device) ==
  IF device = 0
  THEN [rp |-> [rp EXCEPT !.size = size], threw |-> TRUE]
  ELSE LET t == CreateRenderTargets(rp.texNext)
       IN [rp |-> [rp EXCEPT !.size = size, !.pipelines = TRUE, !.targets = t,
                             !.texNext = rp.texNext + 4,
                             !.bindGroups = CreateBindGroups(TRUE, t, rp.bindGroups)],
           threw |-> FALSE]

\* variant of resize that replaces the targets but keeps the old bind groups
RpResize_noRebind(rp, size, device) ==
  IF size = rp.size THEN [rp |-> rp, threw |-> FALSE]
  ELSE LET dead == rp.texDestroyed \cup TargetTextures(rp.targets)
           t == CreateRenderTargets(rp.texNext)
       IN [rp |-> [rp EXCEPT !.size = size, !.texDestroyed = dead, !.targets = t,
                             !.texNext = rp.texNext + 4],
           threw |-> device = 0]

\* RenderPipeline.resize(width, height): the old textures are destroyed, new ones
\* created and all bind groups rebuilt, in one call
RpResize(rp, size, device) ==
  IF size = rp.size THEN [rp |-> rp, threw |-> FALSE]
  ELSE LET dead == rp.texDestroyed \cup TargetTextures(rp.targets)
       IN IF device = 0
          THEN [rp |-> [rp EXCEPT !.size = size, !.texDestroyed = dead], threw |-> TRUE]
          ELSE LET t == CreateRenderTargets(rp.texNext)
               IN [rp |-> [rp EXCEPT !.size = size, !.texDestroyed = dead, !.targets = t,
                                     !.texNext = rp.texNext + 4,
                                     !.bindGroups = CreateBindGroups(rp.pipelines, t, rp.bindGroups)],
                   threw |-> FALSE]

\* RenderPipeline.destroy()
RpDestroy(rp) ==
  [rp EXCEPT !.texDestroyed = rp.texDestroyed \cup TargetTextures(rp.targets),
             !.targets = Null, !.pipelines = FALSE, !.bindGroups = Null]

\* a pass: the resources its attachments / read-write bindings write, the resources
\* its bind groups read and the draws or dispatches it holds
Pass(name, writes, reads, draws) ==
  [name |-> name, writes |-> writes, reads |-> reads, draws |-> draws]

\* variant of the propagation pass whose kernel binds the orbital elements for
\* writing
EncodeComputePass_writesElements(rp) ==
  IF ~rp.pipelines \/ rp.bindGroups = Null THEN <<>>
  ELSE << Pass("compute", {Buf("positions"), Buf("orbitalElements")},
               rp.bindGroups.compute \ {Buf("positions")}, <<"compute">>) >>

EncodeComputePass(rp) ==
  IF ~rp.pipelines \/ rp.bindGroups = Null THEN <<>>
  ELSE << Pass("compute", {Buf("positions")},
               rp.bindGroups.compute \ {Buf("positions")}, <<"compute">>) >>

EncodeBeamComputePass(rp) ==
  IF ~rp.pipelines \/ rp.bindGroups = Null THEN <<>>
  ELSE << Pass("beamCompute", {Buf("beams")},
               rp.bindGroups.beamCompute \ {Buf("beams")}, <<"beamCompute">>) >>

EncodeScenePass(rp) ==
  IF ~rp.pipelines \/ rp.bindGroups = Null \/ rp.targets = Null THEN <<>>
  ELSE << Pass("scene",
               {<<"hdr", rp.targets.hdr>>, <<"depth", rp.targets.depth>>},
               rp.bindGroups.stars \cup rp.bindGroups.earth \cup rp.bindGroups.atmosphere
                 \cup rp.bindGroups.satellites \cup rp.bindGroups.beam,
               <<"stars", "earth", "atmosphere", "satellites", "beam">>) >>

EncodeGroundScenePass(rp) ==
  IF ~rp.pipelines \/ rp.bindGroups = Null \/ rp.targets = Null THEN <<>>
  ELSE << Pass("groundScene",
               {<<"hdr", rp.targets.hdr>>, <<"depth", rp.targets.depth>>},
               rp.bindGroups.satellites \cup rp.bindGroups.beam \cup rp.bindGroups.groundTerrain,
               <<"satellites", "beam", "groundTerrain">>) >>

\* variant of the bloom chain whose two blurs both write bloomA
EncodeBloomPasses_oneTarget(rp) ==
  IF ~rp.pipelines \/ rp.bindGroups = Null \/ rp.targets = Null THEN <<>>
  ELSE << Pass("bloomThreshold", {<<"bloomA", rp.targets.bloomA>>},
               rp.bindGroups.bloomThreshold, <<"bloomThreshold">>),
          Pass("bloomHorizontal", {<<"bloomA", rp.targets.bloomA>>},
               rp.bindGroups.bloomHorizontal, <<"bloomBlur">>),
          Pass("bloomVertical", {<<"bloomA", rp.targets.bloomA>>},
               rp.bindGroups.bloomVertical, <<"bloomBlur">>) >>

EncodeBloomPasses(rp) ==
  IF ~rp.pipelines \/ rp.bindGroups = Null \/ rp.targets = Null THEN <<>>
  ELSE << Pass("bloomThreshold", {<<"bloomA", rp.targets.bloomA>>},
               rp.bindGroups.bloomThreshold, <<"bloomThreshold">>),
          Pass("bloomHorizontal", {<<"bloomB", rp.targets.bloomB>>},
               rp.bindGroups.bloomHorizontal, <<"bloomBlur">>),
          Pass("bloomVertical", {<<"bloomA", rp.targets.bloomA>>},
               rp.bindGroups.bloomVertical, <<"bloomBlur">>) >>

EncodeCompositePass(rp) ==
  IF ~rp.pipelines \/ rp.bindGroups = Null THEN <<>>
  ELSE << Pass("composite", {Buf("swapchain")}, rp.bindGroups.composite, <<"composite">>) >>

\* ------------------------------------------------------------------------
\* Arithmetic: Math.sin / Math.cos, Math.sqrt and the v3* functions on integers
\* ------------------------------------------------------------------------

\* a / b rounded toward zero (b > 0)
TruncDiv(a, b) == IF a >= 0 THEN a \div b ELSE -((-a) \div b)

Abs(a) == IF a >= 0 THEN a ELSE -a

\* quarter degrees in a full turn
FullTurn == 1440

\* Math.sin of an angle in quarter degrees, times 1000 (Bhaskara's formula: exact
\* at the multiples of 90 degrees)
SinQ(q) ==
  LET a == q % FullTurn
      h == IF a <= 720 THEN a ELSE a - 720
      v == (4000 * h * (720 - h)) \div (648000 - h * (720 - h))
  IN IF a <= 720 THEN v ELSE -v

\* Math.cos of an angle in quarter degrees, times 1000
CosQ(q) == SinQ(q + 360)

RECURSIVE IsqrtIter(_, _)
IsqrtIter(n, x) ==
  LET y == (x + n \div x) \div 2 IN IF y >= x THEN x ELSE IsqrtIter(n, y)

\* Math.sqrt, rounded down
Isqrt(n) == IF n < 2 THEN n ELSE IsqrtIter(n, n)

Zero3 == <<0, 0, 0>>

V3Add(a, b) == <<a[1] + b[1], a[2] + b[2], a[3] + b[3]>>

\* v3scale(a, num / den)
V3Scale(a, num, den) ==
  <<TruncDiv(a[1] * num, den), TruncDiv(a[2] * num, den), TruncDiv(a[3] * num, den)>>

\* v3dot of two vectors scaled by 1000, scaled by 1000
V3Dot(a, b) == TruncDiv(a[1] * b[1] + a[2] * b[2] + a[3] * b[3], 1000)

\* v3cross of two vectors scaled by 1000, scaled by 1000
V3Cross(a, b) ==
  <<TruncDiv(a[2] * b[3] - a[3] * b[2], 1000),
    TruncDiv(a[3] * b[1] - a[1] * b[3], 1000),
    TruncDiv(a[1] * b[2] - a[2] * b[1], 1000)>>

V3MaxAbs(a) ==
  LET m == IF Abs(a[1]) >= Abs(a[2]) THEN Abs(a[1]) ELSE Abs(a[2])
  IN IF m >= Abs(a[3]) THEN m ELSE Abs(a[3])

V3Unit(b, n) == IF n = 0 THEN b ELSE V3Scale(b, 1000, n)

V3Scaled(b) == V3Unit(b, Isqrt(b[1] * b[1] + b[2] * b[2] + b[3] * b[3]))

\* v3norm: the unit vector, scaled by 1000; the zero vector stays zero (len || 1);
\* long vectors are scaled down before they are squared
V3Norm(a) == V3Scaled(V3Scale(a, 1, V3MaxAbs(a) \div 20000 + 1))

\* ------------------------------------------------------------------------
\* Orbital position: host (SatelliteGPUBuffer) and propagation kernel (ORBITAL_CS)
\* ------------------------------------------------------------------------

\* an orbital element: raan, inclination and meanAnomaly0 in quarter degrees and
\* shellData = (shellIndex << 8) | colorIndex, as generateOrbitalElements stores
\* it, with the shell colours 2, 6, 3
ShellColors == <<2, 6, 3>>
ShellData(shellIndex) == shellIndex * 256 + ShellColors[shellIndex + 1]

\* meanAnomaly0 + meanMotion * time in quarter degrees; meanMotion in micro-radians
\* per second, time in seconds (1 rad = 229.183 quarter degrees)
MeanAnomaly(m0, meanMotion, time) == m0 + (meanMotion * time * 229) \div 1000000

\* the closed form: position in metres from the radius in km and the angles
OrbitPosition(orbitR, raan, inc, M) ==
  LET cM == CosQ(M)    sM == SinQ(M)
      cR == CosQ(raan) sR == SinQ(raan)
      cI == CosQ(inc)  sI == SinQ(inc)
  IN << orbitR * (TruncDiv(cR * cM, 1000) - TruncDiv(TruncDiv(sR * sM, 1000) * cI, 1000)),
        orbitR * (TruncDiv(sR * cM, 1000) + TruncDiv(TruncDiv(cR * sM, 1000) * cI, 1000)),
        orbitR * TruncDiv(sM * sI, 1000) >>

\* host: SHELL_RADII_KM[shellIndex] || 6921.0 and meanMotions[shellIndex] || 0.001097
SHELL_RADII_KM == <<6711, 6921, 7521>>
meanMotions == <<1153, 1097, 946>>
HostShellIndex(shellData) == (shellData \div 256) % 256
HostOrbitR(shellIndex) == IF shellIndex < 3 THEN SHELL_RADII_KM[shellIndex + 1] ELSE 6921
HostMeanMotion(shellIndex) == IF shellIndex < 3 THEN meanMotions[shellIndex + 1] ELSE 1097

\* SatelliteGPUBuffer.calculateSatellitePosition(index, time), e the element at index
CalculateSatellitePosition(e, time) ==
  LET shellIndex == HostShellIndex(e.shellData)
  IN OrbitPosition(HostOrbitR(shellIndex), e.raan, e.inclination,
                   MeanAnomaly(e.meanAnomaly0, HostMeanMotion(shellIndex), time))

\* SatelliteGPUBuffer.calculateSatelliteVelocity(index, time): the unit velocity,
\* scaled by 1000
CalculateSatelliteVelocity(e, time) ==
  LET M == MeanAnomaly(e.meanAnomaly0, HostMeanMotion(HostShellIndex(e.shellData)), time)
      cM == CosQ(M)      sM == SinQ(M)
      cR == CosQ(e.raan) sR == SinQ(e.raan)
      cI == CosQ(e.inclination) sI == SinQ(e.inclination)
  IN V3Norm(<< -(TruncDiv(cR * sM, 1000) + TruncDiv(TruncDiv(sR * cM, 1000) * cI, 1000)),
               -(TruncDiv(sR * sM, 1000) - TruncDiv(TruncDiv(cR * cM, 1000) * cI, 1000)),
               TruncDiv(cM * sI, 1000) >>)

\* the single-shell kernel of the older shader collection: one radius and one mean
\* motion for every body
ORBIT_KM == 6921
MEAN_MOTION == 1097
OrbitalCS_singleShell(e, time) ==
  [pos |-> OrbitPosition(ORBIT_KM, e.raan, e.inclination,
                         MeanAnomaly(e.meanAnomaly0, MEAN_MOTION, time)),
   w |-> e.shellData]

\* kernel: ORBIT_RADII_KM[shellIndex] and MEAN_MOTIONS[shellIndex], shellIndex =
\* u32(shellData) >> 8u; the kernel writes the position and the colour index
ORBIT_RADII_KM == <<6711, 6921, 7521>>
MEAN_MOTIONS == <<1153, 1097, 946>>
OrbitalCS(e, time) ==
  LET shellIndex == e.shellData \div 256
  IN [pos |-> OrbitPosition(ORBIT_RADII_KM[shellIndex + 1], e.raan, e.inclination,
                            MeanAnomaly(e.meanAnomaly0, MEAN_MOTIONS[shellIndex + 1], time)),
      w |-> e.shellData % 256]

\* ------------------------------------------------------------------------
\* CameraController.setViewMode
\* ------------------------------------------------------------------------

\* the switch of setViewMode: index -> currentMode
ModeOfIndex(index) ==
  CASE index = 0 -> "horizon-720"
    [] index = 1 -> "god"
    [] index = 2 -> "sat-pov"
    [] index = 3 -> "ground"
    [] OTHER     -> "horizon-720"

\* ------------------------------------------------------------------------
\* CameraController: input handlers and calculateCamera
\* ------------------------------------------------------------------------

CAMERA_RADIUS_KM == 7091
EARTH_RADIUS_KM == 6371
GOD_VIEW_DISTANCE == 25000
NEAR_PLANE == 10
FAR_PLANE == 50000
\* CAMERA.DEFAULT_FOV, 60 degrees, in quarter degrees
DEFAULT_FOV == 60 * 4
\* PITCH_LIMIT, 89 degrees, in quarter degrees
PITCH_LIMIT == 89 * 4
\* MOUSE_SENSITIVITY: quarter degrees per pixel
MOUSE_SENSITIVITY == 1
\* FLEET_MOVE_SPEED, 0.08 km, in metres
FLEET_MOVE_SPEED == 80

\* the % of JavaScript: the remainder has the sign of the dividend
JsRem(a, b) == IF a >= 0 THEN a % b ELSE -((-a) % b)

Clamp(lo, hi, x) == IF x < lo THEN lo ELSE IF x > hi THEN hi ELSE x

\* degrees * Math.PI / 180 for an angle in quarter degrees, in milliradians
QToMilliRad(q) == TruncDiv(q * 4363, 1000)

\* the controller's fields as one record
Controller ==
  [cameraAngles |-> cameraAngles, godView |-> godView, mouse |-> mouse, keys |-> keys,
   fleetOffset |-> fleetOffset, currentMode |-> currentMode, modeIndex |-> modeIndex]

\* a CameraController just constructed
NewController ==
  [cameraAngles |-> [yaw |-> 0, pitch |-> 0, distance |-> 25000],
   godView |-> [yaw |-> 0, pitch |-> 350, distance |-> GOD_VIEW_DISTANCE],
   mouse |-> [down |-> FALSE, lastX |-> 0, lastY |-> 0],
   keys |-> {}, fleetOffset |-> Zero3, currentMode |-> "horizon-720", modeIndex |-> 0]

\* another operation on the controller ends the observation of the last call of
\* calculateCamera
CameraCallOver ==
  camOut' = Null /\ camTime' = 0 /\ camRepeat' = "none" /\ camChanged' = {}

\* the controller's fields become those of c
SetController(c) ==
  /\ cameraAngles' = c.cameraAngles /\ godView' = c.godView /\ mouse' = c.mouse
  /\ keys' = c.keys /\ fleetOffset' = c.fleetOffset
  /\ currentMode' = c.currentMode /\ modeIndex' = c.modeIndex

\* the mousedown listener without the test of e.button
OnMouseDown_anyButton(c, ev) ==
  [c EXCEPT !.mouse = [down |-> TRUE, lastX |-> ev.clientX, lastY |-> ev.clientY]]

\* mousedown listener
OnMouseDown(c, ev) ==
  IF ev.button = 0
  THEN [c EXCEPT !.mouse = [down |-> TRUE, lastX |-> ev.clientX, lastY |-> ev.clientY]]
  ELSE c

\* mouseup listener
OnMouseUp(c) == [c EXCEPT !.mouse.down = FALSE]

\* mousemove listener
OnMouseMove(c, ev) ==
  IF ~c.mouse.down THEN c
  ELSE LET dx == IF ev.movementX # 0 THEN ev.movementX ELSE ev.clientX - c.mouse.lastX
           dy == IF ev.movementY # 0 THEN ev.movementY ELSE ev.clientY - c.mouse.lastY
           yaw == JsRem(JsRem(c.cameraAngles.yaw - dx * MOUSE_SENSITIVITY, FullTurn) + FullTurn,
                        FullTurn)
           pitchLimit == IF c.currentMode = "sat-pov" THEN 89 * 4 ELSE PITCH_LIMIT
           pitch == Clamp(-pitchLimit, pitchLimit, c.cameraAngles.pitch + dy * MOUSE_SENSITIVITY)
       IN [c EXCEPT !.cameraAngles.yaw = yaw,
                    !.cameraAngles.pitch = pitch,
                    !.godView.yaw = IF c.currentMode = "god" THEN QToMilliRad(yaw) ELSE @,
                    !.godView.pitch = IF c.currentMode = "god" THEN QToMilliRad(pitch) ELSE @,
                    !.mouse.lastX = ev.clientX,
                    !.mouse.lastY = ev.clientY]

\* the wheel listener without Math.max and Math.min
OnWheel_notClamped(c, deltaY) ==
  LET distance == c.cameraAngles.distance + deltaY * 40
  IN [c EXCEPT !.cameraAngles.distance = distance,
               !.godView.distance = IF c.currentMode = "god" THEN distance ELSE @]

\* wheel listener
OnWheel(c, deltaY) ==
  LET distance == Clamp(500, 180000, c.cameraAngles.distance + deltaY * 40)
  IN [c EXCEPT !.cameraAngles.distance = distance,
               !.godView.distance = IF c.currentMode = "god" THEN distance ELSE @]

\* resetCameraAngle(), the dblclick listener
ResetCameraAngle(c) ==
  [c EXCEPT !.cameraAngles = [yaw |-> 0, pitch |-> 0, distance |-> 25000],
            !.godView = [yaw |-> 0, pitch |-> 350, distance |-> GOD_VIEW_DISTANCE]]

\* keydown and keyup listeners; key is e.key.toLowerCase()
OnKeyDown(c, key) == [c EXCEPT !.keys = @ \cup {key}]
OnKeyUp(c, key) == [c EXCEPT !.keys = @ \ {key}]

\* variant of setViewMode that also resets the camera angles
SetViewModeTo_resetAngles(c, index) ==
  [c EXCEPT !.modeIndex = index, !.fleetOffset = Zero3, !.currentMode = ModeOfIndex(index),
            !.cameraAngles = [yaw |-> 0, pitch |-> 0, distance |-> 25000]]

\* variant of setViewMode that keeps the fleet offset
SetViewModeTo_keepOffset(c, index) ==
  [c EXCEPT !.modeIndex = index, !.currentMode = ModeOfIndex(index)]

\* setViewMode(index)
SetViewModeTo(c, index) ==
  [c EXCEPT !.modeIndex = index, !.fleetOffset = Zero3, !.currentMode = ModeOfIndex(index)]

\* a CameraState: lengths in metres, directions scaled by 1000, fov in quarter degrees
CameraState(position, target, up, nearM) ==
  [position |-> position, target |-> target, up |-> up, fov |-> DEFAULT_FOV,
   near |-> nearM, far |-> FAR_PLANE * 1000]

\* variant of calculateHorizonView whose target has no base upward look
CalculateHorizonView_noUpwardLook(c) ==
  LET cosY == CosQ(c.cameraAngles.yaw)   sinY == SinQ(c.cameraAngles.yaw)
      cosP == CosQ(c.cameraAngles.pitch) sinP == SinQ(c.cameraAngles.pitch)
      position == <<CAMERA_RADIUS_KM * cosY, CAMERA_RADIUS_KM * sinY, 0>>
      target == <<CAMERA_RADIUS_KM * cosY + cosP * cosY,
                  CAMERA_RADIUS_KM * sinY + cosP * sinY,
                  1000 * sinP>>
  IN CameraState(position, target, V3Norm(position), NEAR_PLANE * 1000)

\* calculateHorizonView()
CalculateHorizonView(c) ==
  LET cosY == CosQ(c.cameraAngles.yaw)   sinY == SinQ(c.cameraAngles.yaw)
      cosP == CosQ(c.cameraAngles.pitch) sinP == SinQ(c.cameraAngles.pitch)
      position == <<CAMERA_RADIUS_KM * cosY, CAMERA_RADIUS_KM * sinY, 0>>
      target == <<CAMERA_RADIUS_KM * cosY + cosP * cosY,
                  CAMERA_RADIUS_KM * sinY + cosP * sinY,
                  1000 * sinP + 5000000>>
  IN CameraState(position, target, V3Norm(position), NEAR_PLANE * 1000)

\* calculateGodView(); 1.35 rad lies between 309 and 310 quarter degrees
CalculateGodView(c) ==
  LET yaw == c.cameraAngles.yaw  pitch == c.cameraAngles.pitch
      distance == c.cameraAngles.distance
      cosP == CosQ(pitch) sinP == SinQ(pitch)
      cosY == CosQ(yaw)   sinY == SinQ(yaw)
      position == <<TruncDiv(cosP * cosY, 1000) * distance,
                    TruncDiv(cosP * sinY, 1000) * distance,
                    sinP * distance>>
      up == IF Abs(pitch) > 309 THEN <<cosY, sinY, 0>> ELSE <<0, 0, 1000>>
  IN CameraState(position, Zero3, up, NEAR_PLANE * 1000)

\* Rodrigues' rotation of v about the unit axis k by the angle with cosine cosA and
\* sine sinA, as calculateFleetPOV writes it out per component
Rotate(v, k, cosA, sinA) ==
  LET kxv == V3Cross(k, v)
      kdv == V3Dot(k, v)
  IN [i \in 1..3 |-> TruncDiv(v[i] * cosA, 1000) + TruncDiv(kxv[i] * sinA, 1000)
                     + TruncDiv(TruncDiv(k[i] * kdv, 1000) * (1000 - cosA), 1000)]

\* lines 402-407: the held movement keys move the offset in the local frame
FleetMove(offset, held, forward, right, localUp) ==
  LET step(o, on, dir, sign) ==
        IF on THEN V3Add(o, V3Scale(dir, sign * FLEET_MOVE_SPEED, 1000)) ELSE o
      o1 == step(offset, "w" \in held, forward, 1)
      o2 == step(o1, "s" \in held, forward, -1)
      o3 == step(o2, "a" \in held \/ "q" \in held, right, -1)
      o4 == step(o3, "d" \in held \/ "e" \in held, right, 1)
      o5 == step(o4, " " \in held, localUp, 1)
  IN step(o5, "shift" \in held, localUp, -1)

\* lines 413-457 of calculateFleetPOV, from the local frame and the offset of the
\* call: the head look, the target, the view's up and the head bob
FleetLook(c, time, position, forward, localUp, yawDir, lookRight, lookDir) ==
  [position |-> V3Add(position,
                      \* Math.sin(time * 1.7) * 0.3 km in metres; 1.7 rad = 390 quarter degrees
                      V3Scale(localUp, TruncDiv(SinQ(time * 390) * 300, 1000), 1000)),
   target |-> V3Add(position, V3Scale(lookDir, 100, 1)),
   up |-> V3Norm(V3Cross(V3Norm(V3Cross(lookDir, localUp)), lookDir)),
   fov |-> DEFAULT_FOV, near |-> 1000, far |-> FAR_PLANE * 1000]

FleetPitch(c, time, position, forward, localUp, yawDir, lookRight) ==
  FleetLook(c, time, position, forward, localUp, yawDir, lookRight,
            V3Norm(Rotate(yawDir, lookRight,
                          CosQ(c.cameraAngles.pitch), SinQ(c.cameraAngles.pitch))))

FleetYaw(c, time, position, forward, localUp, yawDir) ==
  FleetPitch(c, time, position, forward, localUp, yawDir, V3Norm(V3Cross(yawDir, localUp)))

\* lines 399-413: movement, damping and the camera position
FleetPosition(c, time, satPos0, radial, forward, right, localUp, offset) ==
  [camera |-> FleetYaw(c, time, V3Add(V3Add(satPos0, V3Scale(radial, 12, 1)), offset),
                       forward, localUp,
                       V3Norm(Rotate(forward, localUp,
                                     CosQ(c.cameraAngles.yaw), SinQ(c.cameraAngles.yaw)))),
   fleetOffset |-> offset]

\* variant of lines 402-410 without the damping of the offset
FleetDamped_noDamping(c, forward, right, localUp) ==
  FleetMove(c.fleetOffset, c.keys, forward, right, localUp)

\* lines 402-410: this.fleetOffset after the movement and the damping
FleetDamped(c, forward, right, localUp) ==
  V3Scale(FleetMove(c.fleetOffset, c.keys, forward, right, localUp), 98, 100)

FleetFrame(c, time, satPos0, radial, forward, right, localUp) ==
  FleetPosition(c, time, satPos0, radial, forward, right, localUp,
                FleetDamped(c, forward, right, localUp))

FleetRight(c, time, satPos0, radial, forward, right) ==
  FleetFrame(c, time, satPos0, radial, forward, right, V3Norm(V3Cross(right, forward)))

FleetRadial(c, time, satPos0, radial, forward) ==
  FleetRight(c, time, satPos0, radial, forward, V3Norm(V3Cross(forward, radial)))

FleetSatellite(c, time, satPos0, satVel) ==
  FleetRadial(c, time, satPos0, V3Norm(satPos0), V3Norm(satVel))

\* calculateFleetPOV(getPosition, getVelocity, time) riding satellite 0, whose
\* orbital element is e: the CameraState returned and this.fleetOffset afterwards
CalculateFleetPOV(c, e, time) ==
  FleetSatellite(c, time, CalculateSatellitePosition(e, time),
                 CalculateSatelliteVelocity(e, time))

\* calculateGroundView(); the surface radius is 6371.1 km
CalculateGroundView(c) ==
  LET yaw == c.cameraAngles.yaw
      lookPitch == -c.cameraAngles.pitch
      cosP == CosQ(lookPitch) sinP == SinQ(lookPitch)
      position == <<TruncDiv((EARTH_RADIUS_KM * 10 + 1) * CosQ(yaw), 10),
                    TruncDiv((EARTH_RADIUS_KM * 10 + 1) * SinQ(yaw), 10), 0>>
      target == <<position[1] + CosQ(yaw) * cosP * 10,
                  position[2] + SinQ(yaw) * cosP * 10,
                  position[3] + sinP * 10000>>
  IN CameraState(position, target, V3Norm(position), 100)

\* variant of calculateCamera that takes the fleet path in every mode
CalculateCamera_fleetAlways(c, e, time) == CalculateFleetPOV(c, e, time)

\* calculateCamera(satellitePosition, satelliteVelocity, time): the CameraState
\* returned and this.fleetOffset afterwards
CalculateCamera(c, e, time) ==
  CASE c.currentMode = "horizon-720" ->
         [camera |-> CalculateHorizonView(c), fleetOffset |-> c.fleetOffset]
    [] c.currentMode = "god" ->
         [camera |-> CalculateGodView(c), fleetOffset |-> c.fleetOffset]
    [] c.currentMode = "sat-pov" -> CalculateFleetPOV(c, e, time)
    [] c.currentMode = "ground" ->
         [camera |-> CalculateGroundView(c), fleetOffset |-> c.fleetOffset]
    [] OTHER ->
         [camera |-> CalculateHorizonView(c), fleetOffset |-> c.fleetOffset]

\* this.fleetOffset after calculateFleetPOV, from the local frame of the body ridden
FleetOffsetIn(c, radial, forward, right) ==
  FleetDamped(c, forward, right, V3Norm(V3Cross(right, forward)))

FleetOffsetAt(c, radial, forward) ==
  FleetOffsetIn(c, radial, forward, V3Norm(V3Cross(forward, radial)))

\* this.fleetOffset after calculateCamera(satellitePosition, satelliteVelocity, time):
\* only calculateFleetPOV writes it
OffsetAfterCamera(c, e, time) ==
  IF c.currentMode = "sat-pov"
  THEN FleetOffsetAt(c, V3Norm(CalculateSatellitePosition(e, time)),
                     V3Norm(CalculateSatelliteVelocity(e, time)))
  ELSE c.fleetOffset

\* ------------------------------------------------------------------------
\* View-projection matrix and frustum (math helpers, CameraController, writeUniforms)
\* ------------------------------------------------------------------------

\* A matrix is the sequence of its 16 entries, column-major as in the code, entry
\* [i] of the code at index i + 1. Entries are scaled by 1000: 1.0 is 1000 and a
\* length of 1 km is 1000. Positions handed to a matrix are in whole km.

\* the product of two numbers scaled by 1000, scaled by 1000
MulS(a, b) ==
  IF Abs(a) < 40000 /\ Abs(b) < 40000 THEN TruncDiv(a * b, 1000)
  ELSE IF Abs(a) >= Abs(b) THEN TruncDiv(a, 1000) * b
  ELSE a * TruncDiv(b, 1000)

V3Sub(a, b) == <<a[1] - b[1], a[2] - b[2], a[3] - b[3]>>

\* a position in metres, in whole km
ToKm(a) == <<TruncDiv(a[1], 1000), TruncDiv(a[2], 1000), TruncDiv(a[3], 1000)>>

\* a[1] * b[1] + a[2] * b[2] + a[3] * b[3] of a direction scaled by 1000 and a
\* position in km: a length scaled by 1000
DotKm(a, b) == a[1] * b[1] + a[2] * b[2] + a[3] * b[3]

\* v3len of a vector in metres, in metres; long vectors are scaled down before they
\* are squared
V3Len(a) ==
  LET k == V3MaxAbs(a) \div 20000 + 1
      b == V3Scale(a, 1, k)
  IN Isqrt(b[1] * b[1] + b[2] * b[2] + b[3] * b[3]) * k

\* the matrix mat4lookAt returns, from eye in km and the vectors f, r and u
LookAtMatrix(eyeKm, f, r, u) ==
  << r[1], u[1], -f[1], 0,
     r[2], u[2], -f[2], 0,
     r[3], u[3], -f[3], 0,
     -DotKm(r, eyeKm), -DotKm(u, eyeKm), DotKm(f, eyeKm), 1000 >>

LookAtRight(eyeKm, f, r) == LookAtMatrix(eyeKm, f, r, V3Cross(r, f))

LookAtForward(eyeKm, f, up) == LookAtRight(eyeKm, f, V3Norm(V3Cross(f, up)))

\* mat4lookAt(eye, target, up), eye and target in metres
Mat4LookAt(eye, target, up) == LookAtForward(ToKm(eye), V3Norm(V3Sub(target, eye)), up)

\* the matrix mat4persp returns from f = 1 / tan(fovy / 2) and r = far * range
PerspMatrix(f, r, width, height, near) ==
  << (f * height) \div width, 0, 0, 0,
     0, f, 0, 0,
     0, 0, r, -1000,
     0, 0, TruncDiv(near * r, 1000), 0 >>

\* mat4persp(fovy, aspect, near, far): fovy in quarter degrees, aspect = width /
\* height, near and far in metres
Mat4Persp(fovy, width, height, near, far) ==
  PerspMatrix((CosQ(fovy \div 2) * 1000) \div SinQ(fovy \div 2),
              TruncDiv(TruncDiv(far, 1000) * 1000, TruncDiv(near - far, 1000)),
              width, height, near)

\* the loop of buildViewProjection: entry [r + c * 4] of projection * view
Mat4MulAt(a, b, r, c) ==
  MulS(a[r + 1], b[c * 4 + 1]) + MulS(a[r + 5], b[c * 4 + 2])
    + MulS(a[r + 9], b[c * 4 + 3]) + MulS(a[r + 13], b[c * 4 + 4])

Mat4Mul(a, b) == [i \in 1..16 |-> Mat4MulAt(a, b, (i - 1) % 4, (i - 1) \div 4)]

\* buildViewProjection(camera, aspect)
ViewMatrix(camera) == Mat4LookAt(camera.position, camera.target, camera.up)
ProjectionMatrix(camera, size) ==
  Mat4Persp(camera.fov, size[1], size[2], camera.near, camera.far)

\* getCameraAxes(view)
CameraRight(view) == <<view[1], view[5], view[9]>>
CameraUp(view) == <<view[2], view[6], view[10]>>

\* row i of a column-major matrix
Row(vp, i) == <<vp[i + 1], vp[i + 5], vp[i + 9], vp[i + 13]>>

P4Add(a, b) == <<a[1] + b[1], a[2] + b[2], a[3] + b[3], a[4] + b[4]>>
P4Sub(a, b) == <<a[1] - b[1], a[2] - b[2], a[3] - b[3], a[4] - b[4]>>

\* the six planes of extractFrustum before they are normalized: left, right,
\* bottom, top, near, far
FrustumRows(r0, r1, r2, r3) ==
  << P4Add(r3, r0), P4Sub(r3, r0), P4Add(r3, r1), P4Sub(r3, r1), r2, P4Sub(r3, r2) >>

\* p / len, len scaled by 1000
PlaneOver(p, len) ==
  << TruncDiv(p[1] * 1000, len), TruncDiv(p[2] * 1000, len), TruncDiv(p[3] * 1000, len),
     TruncDiv(p[4], len) * 1000 + TruncDiv(JsRem(p[4], len) * 1000, len) >>

PlaneLength(p) == Isqrt(p[1] * p[1] + p[2] * p[2] + p[3] * p[3])

\* len = Math.sqrt(...) || 1
NormalizePlane(p) == PlaneOver(p, IF PlaneLength(p) = 0 THEN 1000 ELSE PlaneLength(p))

\* planes of extractFrustum(vp), before they are normalized
RawFrustum(vp) ==
  FrustumRows(Row(vp, 0), Row(vp, 1), Row(vp, 2), Row(vp, 3))

\* extractFrustum(vp): planes <<nx, ny, nz, d>>, the normal scaled by 1000, d a
\* length scaled by 1000
ExtractFrustum(vp) ==
  [p \in 1..6 |-> NormalizePlane(RawFrustum(vp)[p])]

\* the uniform buffer writeUniforms fills, from the camera state, the view and the
\* view-projection matrix: u32[30] is the mode index and u32[31] is 0
UniformData(camera, view, viewProjection, index, time, deltaTime, size) ==
  [view_proj |-> viewProjection,
   camera_pos |-> camera.position,
   camera_right |-> CameraRight(view),
   camera_up |-> CameraUp(view),
   time |-> time,
   delta_time |-> deltaTime,
   view_mode |-> index,
   is_ground_view |-> 0,
   frustum |-> ExtractFrustum(viewProjection),
   screen_size |-> size]

UniformOfView(camera, view, index, time, deltaTime, size) ==
  UniformData(camera, view, Mat4Mul(ProjectionMatrix(camera, size), view),
              index, time, deltaTime, size)

UniformOfCamera(camera, index, time, deltaTime, size) ==
  UniformOfView(camera, ViewMatrix(camera), index, time, deltaTime, size)

\* writeUniforms(time, deltaTime) on the controller c with the canvas size size:
\* the uniform buffer written and this.fleetOffset afterwards
WriteUniforms(c, e, time, deltaTime, size) ==
  [uni |-> UniformOfCamera(CalculateCamera(c, e, time).camera, c.modeIndex, time,
                           deltaTime, size),
   fleetOffset |-> CalculateCamera(c, e, time).fleetOffset]

\* ------------------------------------------------------------------------
\* SAT_SHADER: the vertex stage of the satellite billboards
\* ------------------------------------------------------------------------

\* dot(pl.xyz, wp) + pl.w for a plane of uni.frustum and a position in km: a
\* length scaled by 1000
PlaneSide(pl, wpKm) == pl[1] * wpKm[1] + pl[2] * wpKm[2] + pl[3] * wpKm[3] + pl[4]

\* the loop over uni.frustum: some plane has the body more than 200 km outside
OutsideFrustum(frustum, wpKm) ==
  \E p \in 1..6 : PlaneSide(frustum[p], wpKm) < -200000

\* the ground-view test: ray_dir = wp - cam, in units of 100 km, and the roots t1,
\* t2 of a * t * t + b * t + c, compared with 0 and 1 without the division by 2 * a
HorizonRoots(a, b, c, sqrtDisc) ==
  \/ (-b - sqrtDisc > 0 /\ -b - sqrtDisc < 2 * a)
  \/ (-b + sqrtDisc > 0 /\ -b + sqrtDisc < 2 * a)

HorizonQuadratic(a, b, c) ==
  IF b * b - 4 * a * c >= 0 THEN HorizonRoots(a, b, c, Isqrt(b * b - 4 * a * c)) ELSE FALSE

HorizonHidden(camH, rayH) ==
  HorizonQuadratic(rayH[1] * rayH[1] + rayH[2] * rayH[2] + rayH[3] * rayH[3],
                   2 * (camH[1] * rayH[1] + camH[2] * rayH[2] + camH[3] * rayH[3]),
                   camH[1] * camH[1] + camH[2] * camH[2] + camH[3] * camH[3]
                     - ((EARTH_RADIUS_KM + 50) \div 100) * ((EARTH_RADIUS_KM + 50) \div 100))

\* a position in metres, in units of 100 km, rounded
ToHecto(a) ==
  <<TruncDiv(a[1] + (IF a[1] >= 0 THEN 50000 ELSE -50000), 100000),
    TruncDiv(a[2] + (IF a[2] >= 0 THEN 50000 ELSE -50000), 100000),
    TruncDiv(a[3] + (IF a[3] >= 0 THEN 50000 ELSE -50000), 100000)>>

\* the distance beyond which vs culls a body, in metres: the literal 180000.0, which
\* does not read uni.view_mode
MaxRenderDistance(u) == 180000000

\* variant of the visibility test with the frustum loop left out
SatVisible_noFrustum(u, wp, dist) ==
  /\ ~(dist > MaxRenderDistance(u))
  /\ (u.is_ground_view # 0 =>
        ~HorizonHidden(ToHecto(u.camera_pos), V3Sub(ToHecto(wp), ToHecto(u.camera_pos))))

\* variant of the visibility test with the distance cull left out
SatVisible_noDistance(u, wp, dist) ==
  /\ ~OutsideFrustum(u.frustum, ToKm(wp))
  /\ (u.is_ground_view # 0 =>
        ~HorizonHidden(ToHecto(u.camera_pos), V3Sub(ToHecto(wp), ToHecto(u.camera_pos))))

\* visible at the end of the three tests: distance, frustum, ground-view horizon;
\* wp and dist in metres
SatVisible(u, wp, dist) ==
  /\ ~(dist > MaxRenderDistance(u))
  /\ ~OutsideFrustum(u.frustum, ToKm(wp))
  /\ (u.is_ground_view # 0 =>
        ~HorizonHidden(ToHecto(u.camera_pos), V3Sub(ToHecto(wp), ToHecto(u.camera_pos))))

\* smoothstep(low, high, x), scaled by 1000, by its formula t * t * (3 - 2 * t) with
\* t = clamp((x - low) / (high - low), 0, 1)
SmoothStep(low, high, x) ==
  LET t == Clamp(0, 1000, TruncDiv((x - low) * 1000, high - low))
  IN TruncDiv(TruncDiv(t * t, 1000) * (3000 - 2 * t), 1000)

\* variant of the base size without the clamp
BaseSize_notClamped(dist) ==
  9000000 \div Isqrt((IF dist > 60000 THEN dist ELSE 60000) \div 10)

\* clamp(900 / sqrt(max(dist, 60)), 0.5, 90): km scaled by 1000, dist in metres
BaseSize(dist) ==
  Clamp(500, 90000, 9000000 \div Isqrt((IF dist > 60000 THEN dist ELSE 60000) \div 10))

\* what smoothstep(500.0, 50.0, dist) may return where the vertex stage evaluates
\* it: low is above high, for which WGSL leaves the result indeterminate; the
\* formula and the two ends of its range stand for the outcomes
EnlargeSteps(u, dist) ==
  IF u.view_mode = 2 /\ dist < 500000
  THEN {0, SmoothStep(500000, 50000, dist), 1000}
  ELSE {0}

\* bsize: the base size, enlarged in view mode 2 for bodies nearer than 500 km;
\* step is the value of smoothstep(500.0, 50.0, dist), scaled by 1000
BillboardSize(u, dist, step) ==
  IF u.view_mode = 2 /\ dist < 500000
  THEN TruncDiv(BaseSize(dist) * (1000 + (step * 3) \div 2), 1000)
  ELSE BaseSize(dist)

\* the corners of the quad, by vertex_index
Quad == << <<-1, -1>>, <<1, -1>>, <<-1, 1>>, <<-1, 1>>, <<1, -1>>, <<1, 1>> >>

\* uni.view_proj * vec4f(fpos, 1), fpos in km
Project(vp, fposKm) ==
  [r \in 1..4 |-> vp[r] * fposKm[1] + vp[r + 4] * fposKm[2] + vp[r + 8] * fposKm[3]
                  + vp[r + 12]]

\* o.cp of a visible body for vertex vi: fpos = wp + (qv.x * right + qv.y * up) * bsize
VertexPosition(u, wp, bsize, vi) ==
  Project(u.view_proj,
          ToKm(V3Add(wp, V3Scale(V3Add(V3Scale(u.camera_right, Quad[vi][1], 1),
                                       V3Scale(u.camera_up, Quad[vi][2], 1)),
                                 bsize, 1000))))

\* the six vertices the vertex stage returns for one body: a culled body gets
\* o.cp = vec4f(10, 10, 10, 1) for each of them
SatVertices(u, wp, dist, visible, bsize) ==
  [visible |-> visible, dist |-> dist, bsize |-> IF visible THEN bsize ELSE 0,
   cp |-> [vi \in 1..6 |-> IF visible THEN VertexPosition(u, wp, bsize, vi)
                           ELSE <<10000, 10000, 10000, 1000>>]]

SatAtDistance(u, wp, dist, step) ==
  SatVertices(u, wp, dist, SatVisible(u, wp, dist), BillboardSize(u, dist, step))

\* dist = length(wp - cam), in metres
BodyDistance(u, wp) == V3Len(V3Sub(wp, u.camera_pos))

\* vs for the instance at wp (metres) under the uniform buffer u
SatVs(u, wp, step) == SatAtDistance(u, wp, BodyDistance(u, wp), step)

\* the clip volume: -w <= x <= w, -w <= y <= w, 0 <= z <= w
InClipVolume(cp) ==
  /\ -cp[4] <= cp[1] /\ cp[1] <= cp[4]
  /\ -cp[4] <= cp[2] /\ cp[2] <= cp[4]
  /\ 0 <= cp[3] /\ cp[3] <= cp[4]

\* the billboard leaves fragments: a triangle with no vertex in the clip volume is
\* taken as clipped away, which is exact for the culled body, whose vertices coincide
SatDrawn(out) == \E vi \in 1..6 : InClipVolume(out.cp[vi])

\* ------------------------------------------------------------------------
\* The orbital-element buffer and the beam buffer; BEAM_COMPUTE_SHADER
\* ------------------------------------------------------------------------

\* uploadOrbitalElements(): one writeBuffer on the orbital-element buffer
UploadOrbitalElements(writes) == IF writes < 2 THEN writes + 1 ELSE 2

\* beamParamsData[1] = 1 is stored in a Float32Array; the kernel reads the word as
\* the u32 patternMode, which gets the bits of 1.0f
PATTERN_MODE_WORD == 1065353216

\* the beam params uniform as initialize() writes it; nothing writes it again
BeamParamsData == [time |-> 0, patternMode |-> PATTERN_MODE_WORD, density |-> MAX_BEAMS]

\* the beam buffer as createBuffer leaves it: MAX_BEAMS entries, zeroed
NewBeams == [i \in 0..(MAX_BEAMS - 1) |-> [intensity |-> 0, sat |-> -1]]

\* the invocations of one dispatchWorkgroups(Math.ceil(MAX_BEAMS / 256))
BeamLanes ==
  0..(((MAX_BEAMS + BEAM_WORKGROUP_SIZE - 1) \div BEAM_WORKGROUP_SIZE) * BEAM_WORKGROUP_SIZE - 1)

\* a lane that has not run
NoRun == [ran |-> FALSE, reads |-> {}, writes |-> {}]

\* a dispatch of which no lane has run
NewDispatch == [l \in BeamLanes |-> NoRun]

\* intensity at the end of main, scaled by 1000: 0.9 unless pattern mode 1 or 2
\* sets it from the mask
BeamIntensity(patternMode, inMask) ==
  IF patternMode = 1 THEN (IF inMask THEN 1000 ELSE 300)
  ELSE IF patternMode = 2 THEN (IF inMask THEN 1000 ELSE 0)
  ELSE 900

\* variant of main without the range test on satIdx
BeamMain_noRangeTest(i, patternMode, inMask) ==
  IF i >= MAX_BEAMS THEN [ran |-> TRUE, reads |-> {}, writes |-> {}]
  ELSE [ran |-> TRUE, reads |-> {i * SATELLITE_STRIDE},
        writes |-> {<<i, "start", BeamIntensity(patternMode, inMask), i * SATELLITE_STRIDE>>,
                    <<i, "end", 0, i * SATELLITE_STRIDE>>}]

\* main for the invocation gid.x = i: the entries of sat_pos it reads and its writes
\* to beams, as <<index, field, intensity, body>>
BeamMain(i, patternMode, inMask) ==
  IF i >= MAX_BEAMS THEN [ran |-> TRUE, reads |-> {}, writes |-> {}]
  ELSE IF i * SATELLITE_STRIDE >= NUM_SATELLITES
  THEN [ran |-> TRUE, reads |-> {}, writes |-> {<<i, "start.w", 0, -1>>}]
  ELSE [ran |-> TRUE, reads |-> {i * SATELLITE_STRIDE},
        writes |-> {<<i, "start", BeamIntensity(patternMode, inMask), i * SATELLITE_STRIDE>>,
                    <<i, "end", 0, i * SATELLITE_STRIDE>>}]

\* the beam buffer b after the writes of a lane: start.w alone, or start as a whole
BeamStore(b, writes) ==
  [k \in DOMAIN b |->
     IF \E w \in writes : w[1] = k /\ w[2] = "start"
     THEN LET w == CHOOSE w \in writes : w[1] = k /\ w[2] = "start"
          IN [intensity |-> w[3], sat |-> w[4]]
     ELSE IF \E w \in writes : w[1] = k /\ w[2] = "start.w"
     THEN [b[k] EXCEPT !.intensity = 0]
     ELSE b[k]]

\* the beams of b that are enabled
EnabledBeams(b) == {k \in DOMAIN b : b[k].intensity # 0}

RECURSIVE BeamsAfterLanes(_, _, _)
\* the beam buffer after the lanes of a whole dispatch; masks[i] tells whether the
\* pattern mask holds for beam i
BeamsAfterLanes(b, lanes, masks) ==
  IF lanes = {} THEN b
  ELSE LET l == CHOOSE l \in lanes : TRUE
       IN BeamsAfterLanes(BeamStore(b, BeamMain(l, BeamParamsData.patternMode,
                                                 l \in DOMAIN masks /\ masks[l]).writes),
                          lanes \ {l}, masks)

\* a frame whose command buffer was submitted with the beam pass in it
BeamPassSubmitted(f) ==
  f.submitted /\ \E i \in DOMAIN f.passes : f.passes[i].name = "beamCompute"

\* the write accesses of a submitted frame to the orbital-element buffer
ElementWritesOf(f) ==
  IF f.submitted
  THEN Cardinality({i \in DOMAIN f.passes : Buf("orbitalElements") \in f.passes[i].writes})
  ELSE 0

\* the count of writes to the orbital-element buffer after the frame
ElementWritesAfter(writes, f) ==
  IF writes + ElementWritesOf(f) < 2 THEN writes + ElementWritesOf(f) ELSE 2

\* ------------------------------------------------------------------------
\* GrokZephyrApp.render
\* ------------------------------------------------------------------------

\* the state a frame callback works on, and what it has done so far
FrameStart ==
  [canvas |-> canvasSize, rp |-> RpState, stages |-> <<>>, passes |-> <<>>,
   stale |-> {}, submitted |-> FALSE, threw |-> FALSE]

\* handleResize(): context.resize, pipeline.resize, buffers.updateBloomUniforms;
\* writeBuffer throws (getDevice) when the context holds no device
HandleResize(f) ==
  IF ~appContext \/ ~appBuffers \/ ~appPipeline THEN f
  ELSE LET r == RpResize(f.rp, clientSize, ctxDevice)
       IN [f EXCEPT !.canvas = clientSize, !.rp = r.rp,
                    !.threw = r.threw \/ (bufSet /\ ctxDevice = 0)]

\* lines 260-266 of render
FrameResize(f) ==
  IF clientSize # f.canvas THEN HandleResize(f) ELSE f

\* writeUniforms gets as far as calculateCamera
FrameCamera(f) == ~f.threw /\ appContext /\ appBuffers

\* writeUniforms(time, deltaTime): getBuffers() throws without buffers, writeBuffer
\* without a device
FrameUniforms(f) ==
  IF f.threw \/ ~appContext \/ ~appBuffers THEN f
  ELSE IF ~bufSet \/ ctxDevice = 0 THEN [f EXCEPT !.threw = TRUE]
  ELSE [f EXCEPT !.stages = Append(f.stages, "uniform")]

\* variant of the choice of scene pass that encodes none in ground mode
ScenePassFor_sceneOnly(mode, rp) ==
  IF mode = "ground" THEN <<>> ELSE EncodeScenePass(rp)

\* variant of the choice of scene pass that takes the orbit-view pass in every mode
ScenePassFor_orbitAlways(mode, rp) == EncodeScenePass(rp)

\* the scene pass render() picks: the ground variant in ground mode
ScenePassFor(mode, rp) ==
  IF mode = "ground" THEN EncodeGroundScenePass(rp) ELSE EncodeScenePass(rp)

\* the passes render() encodes before it asks for the swapchain texture, in order,
\* each with the stage it stands for
FramePassCalls(mode, rp) ==
  << [stage |-> "propagation", passes |-> EncodeComputePass(rp)],
     [stage |-> "scene",       passes |-> ScenePassFor(mode, rp)],
     [stage |-> "bloom",       passes |-> EncodeBloomPasses(rp)] >>

RECURSIVE CallsPasses(_), CallsStages(_)
CallsPasses(calls) ==
  IF calls = <<>> THEN <<>> ELSE Head(calls).passes \o CallsPasses(Tail(calls))
CallsStages(calls) ==
  IF calls = <<>> THEN <<>>
  ELSE (IF Head(calls).passes = <<>> THEN <<>> ELSE <<Head(calls).stage>>)
       \o CallsStages(Tail(calls))

\* the textures among the resources of a pass
PassTextures(p) == {r \in p.writes \cup p.reads : r[2] # 0}

StaleOf(passes, dead) ==
  UNION {PassTextures(passes[i]) \cap dead : i \in DOMAIN passes}

\* lines 279-305 of render: encoder, passes 1-5, swapchain view, composite, submit
FrameEncode(f) ==
  IF f.threw THEN f
  ELSE IF ctxDevice = 0 THEN [f EXCEPT !.threw = TRUE]
  ELSE LET calls == FramePassCalls(currentMode, f.rp)
           early == CallsPasses(calls)
       IN IF ~ctxCanvasCtx
          THEN [f EXCEPT !.passes = early, !.stages = f.stages \o CallsStages(calls),
                         !.stale = StaleOf(early, f.rp.texDestroyed), !.threw = TRUE]
          ELSE LET comp == EncodeCompositePass(f.rp)
                   all == early \o comp
               IN [f EXCEPT !.passes = all,
                            !.stages = f.stages \o CallsStages(calls)
                                       \o (IF comp = <<>> THEN <<>> ELSE <<"tonemap">>)
                                       \o <<"present">>,
                            !.stale = StaleOf(all, f.rp.texDestroyed),
                            !.submitted = TRUE]

\* one animation-frame callback: render(timestamp)
Render ==
  /\ rafPending > 0
  /\ LET firedLatest == rafLatest /\ rafPending = 1
         f == FrameEncode(FrameUniforms(FrameResize(FrameStart)))
     IN IF ~isRunning \/ ~appContext \/ ~appPipeline \/ ~earthBuffers
        THEN /\ rafPending' = rafPending - 1
             /\ rafLatest' = (rafLatest /\ ~firedLatest)
             /\ UNCHANGED <<canvasSize, rpVars, frameVars, fleetOffset, lastOp, elemWrites,
                            beamVars>>
        ELSE /\ canvasSize' = f.canvas
             /\ rpPipelines' = f.rp.pipelines
             /\ rpBindGroups' = f.rp.bindGroups
             /\ rpTargets' = f.rp.targets
             /\ rpSize' = f.rp.size
             /\ texNext' = f.rp.texNext
             /\ texDestroyed' = f.rp.texDestroyed
             /\ frameStages' = f.stages
             /\ framePasses' = f.passes
             /\ frameSubmitted' = f.submitted
             /\ frameStale' = f.stale
             /\ frameThrew' = f.threw
             /\ elemWrites' = ElementWritesAfter(elemWrites, f)
             /\ IF BeamPassSubmitted(f)
                THEN /\ \E masks \in [0..(MAX_BEAMS - 1) -> BOOLEAN] :
                          beams' = BeamsAfterLanes(beams, BeamLanes, masks)
                     /\ beamLog' = NewDispatch
                ELSE UNCHANGED beamVars
             /\ rafPending' = IF f.threw THEN rafPending - 1 ELSE rafPending
             /\ rafLatest' = IF f.threw THEN (rafLatest /\ ~firedLatest) ELSE TRUE
             /\ IF FrameCamera(FrameResize(FrameStart))
                THEN /\ \E time \in FrameTimes :
                          fleetOffset' = CalculateCamera(Controller, orbElem, time).fleetOffset
                     /\ lastOp' = "calculateCamera"
                ELSE UNCHANGED <<fleetOffset, lastOp>>
  /\ UNCHANGED <<initPc, appContext, appBuffers, appPipeline, earthBuffers, isRunning,
                 errorShown, destroyed, ctxVars, clientSize, resizes, bufSet, cameraAngles,
                 godView, mouse, keys, currentMode, modeIndex, camVars, orbitVars, drawVars,
                 lastTime, genVars, partVars>>

\* ------------------------------------------------------------------------
\* GrokZephyrApp: start, stop, handleError, initialize, destroy
\* ------------------------------------------------------------------------

\* start(): <<isRunning, rafPending, rafLatest>> after the call
StartLoop(running, pending, latest) ==
  IF running THEN <<running, pending, latest>> ELSE <<TRUE, pending + 1, TRUE>>

\* stop() without cancelAnimationFrame
StopLoop_noCancel(running, pending, latest) == <<FALSE, pending, latest>>

\* stop(): cancelAnimationFrame(this.animationId) removes the callback it names
StopLoop(running, pending, latest) ==
  <<FALSE, IF latest THEN pending - 1 ELSE pending, FALSE>>

\* variant of handleError that only logs
HandleError_logOnly ==
  UNCHANGED <<errorShown, isRunning, rafPending, rafLatest>>

\* handleError(error): the message is shown; nothing is started, nothing retried
HandleError ==
  /\ errorShown' = TRUE
  /\ UNCHANGED <<isRunning, rafPending, rafLatest>>

\* the catch block of GrokZephyrApp.initialize
AppInitFailed ==
  /\ initPc' = "failed"
  /\ HandleError

\* where the synchronous rest of GrokZephyrApp.initialize (lines 88-122) may throw
SetupThrowPoints == {"none", "profiler", "geometry", "pipelines"}

\* a RenderPipeline just constructed
RpNew == [pipelines |-> FALSE, bindGroups |-> Null, targets |-> Null, size |-> <<0, 0>>,
          texNext |-> texNext, texDestroyed |-> texDestroyed]

\* lines 88-122 of initialize, run once the context is there; device is the
\* device context.initialize() returned
AppSetup(throwAt, device) ==
  IF throwAt = "profiler"
  THEN /\ AppInitFailed
       /\ UNCHANGED <<appBuffers, appPipeline, earthBuffers, bufSet, elemWrites, rpVars, ctlVars, lastOp>>
  ELSE IF throwAt = "geometry"
  THEN /\ AppInitFailed
       /\ appBuffers' = TRUE /\ bufSet' = TRUE
       /\ elemWrites' = UploadOrbitalElements(elemWrites)
       /\ UNCHANGED <<appPipeline, earthBuffers, rpVars, ctlVars, lastOp>>
  ELSE LET r == RpInitialize(RpNew, clientSize, IF throwAt = "pipelines" THEN 0 ELSE device)
           loop == StartLoop(isRunning, rafPending, rafLatest)
       IN /\ appBuffers' = TRUE /\ bufSet' = TRUE /\ earthBuffers' = TRUE
          /\ elemWrites' = UploadOrbitalElements(elemWrites)
          /\ appPipeline' = TRUE
          /\ rpPipelines' = r.rp.pipelines /\ rpBindGroups' = r.rp.bindGroups
          /\ rpTargets' = r.rp.targets /\ rpSize' = r.rp.size
          /\ texNext' = r.rp.texNext /\ texDestroyed' = r.rp.texDestroyed
          /\ IF r.threw
             THEN AppInitFailed /\ UNCHANGED <<ctlVars, lastOp>>
             ELSE /\ initPc' = "done"
                  /\ errorShown' = FALSE
                  /\ SetController(SetViewModeTo(Controller, 0))
                  /\ lastOp' = "setViewMode"
                  /\ isRunning' = loop[1] /\ rafPending' = loop[2] /\ rafLatest' = loop[3]

\* main(): app.initialize() up to its first await; WebGPUContext.isSupported()
\* decides whether context.initialize() throws at once
AppInitialize ==
  /\ initPc = "new"
  /\ appContext' = TRUE
  /\ ctxInitCalls' = ctxInitCalls + 1
  /\ \E supported \in BOOLEAN :
       IF supported
       THEN /\ initPc' = "awaitCtx" /\ ctxPc' = "awaitAdapter" /\ ctxCaller' = "app"
            /\ UNCHANGED <<errorShown, isRunning, rafPending, rafLatest, ctxFailed>>
       ELSE /\ AppInitFailed
            /\ ctxFailed' = TRUE
            /\ UNCHANGED <<ctxPc, ctxCaller>>
  /\ UNCHANGED <<appBuffers, appPipeline, earthBuffers, destroyed, ctxDevice, ctxAdapter,
                 ctxCanvasCtx, devices, lostUnexpected, canvasVars, rpVars, bufSet, elemWrites,
                 frameVars, ctlVars, lastOp, camVars, orbitVars, gpuVars>>

\* WebGPUContext.initialize ends by a throw: the app's catch block runs for the
\* app's call, console.error for the lost handler's
CtxInitThrows ==
  /\ ctxPc' = "idle"
  /\ ctxFailed' = TRUE
  /\ IF ctxCaller = "app" THEN AppInitFailed
     ELSE UNCHANGED <<initPc, errorShown, isRunning, rafPending, rafLatest>>
  /\ UNCHANGED <<appBuffers, appPipeline, earthBuffers, bufSet, elemWrites, rpVars, ctlVars, lastOp>>

\* navigator.gpu.requestAdapter settles
CtxAdapterSettled ==
  /\ ctxPc = "awaitAdapter"
  /\ \E outcome \in {"adapter", "none", "rejected"} :
       CASE outcome = "adapter" ->
              /\ ctxAdapter' = TRUE /\ ctxPc' = "awaitAdapterInfo"
              /\ UNCHANGED <<ctxFailed, initPc, errorShown, isRunning, rafPending, rafLatest,
                             appBuffers, appPipeline, earthBuffers, bufSet, elemWrites, rpVars, ctlVars, lastOp>>
         [] outcome = "none" -> ctxAdapter' = FALSE /\ CtxInitThrows
         [] outcome = "rejected" -> UNCHANGED ctxAdapter /\ CtxInitThrows
  /\ UNCHANGED <<appContext, destroyed, ctxCaller, ctxDevice, ctxCanvasCtx, devices,
                 ctxInitCalls, lostUnexpected, canvasVars, frameVars, camVars, orbitVars, gpuVars>>

\* adapter.requestAdapterInfo settles; line 89 then reads this.adapter, which
\* destroy() may have set to null meanwhile (a TypeError, rethrown as WebGPUError)
CtxAdapterInfoSettled ==
  /\ ctxPc = "awaitAdapterInfo"
  /\ \E ok \in BOOLEAN :
       IF ok /\ ctxAdapter
       THEN /\ ctxPc' = "awaitDevice"
            /\ UNCHANGED <<ctxFailed, initPc, errorShown, isRunning, rafPending, rafLatest,
                           appBuffers, appPipeline, earthBuffers, bufSet, elemWrites, rpVars, ctlVars, lastOp>>
       ELSE CtxInitThrows
  /\ UNCHANGED <<appContext, destroyed, ctxCaller, ctxDevice, ctxAdapter, ctxCanvasCtx,
                 devices, ctxInitCalls, lostUnexpected, canvasVars, frameVars, camVars,
                 orbitVars, gpuVars>>

NewDevice == Cardinality(DOMAIN devices) + 1

\* adapter.requestDevice settles; with a device the lost handler is installed, the
\* canvas context is asked for and configured and, for the app's call, the rest of
\* GrokZephyrApp.initialize runs
CtxDeviceSettled ==
  /\ ctxPc = "awaitDevice"
  /\ \E outcome \in {"device", "rejected"}, canvasCtx \in BOOLEAN, throwAt \in SetupThrowPoints :
       IF outcome = "rejected"
       THEN /\ canvasCtx /\ throwAt = "none"
            /\ CtxInitThrows
            /\ UNCHANGED <<ctxDevice, ctxCanvasCtx, devices>>
       ELSE /\ NewDevice <= MaxDevices
            /\ ctxDevice' = NewDevice
            /\ devices' = [d \in DOMAIN devices \cup {NewDevice} |->
                             IF d = NewDevice THEN "live" ELSE devices[d]]
            /\ ctxCanvasCtx' = canvasCtx
            /\ IF ~canvasCtx
               THEN throwAt = "none" /\ CtxInitThrows
               ELSE /\ ctxPc' = "idle"
                    /\ ctxFailed' = FALSE
                    /\ IF ctxCaller = "app"
                       THEN AppSetup(throwAt, NewDevice)
                       ELSE /\ throwAt = "none"
                            /\ UNCHANGED <<initPc, errorShown, isRunning, rafPending,
                                           rafLatest, appBuffers, appPipeline, earthBuffers,
                                           bufSet, elemWrites, rpVars, ctlVars, lastOp>>
  /\ UNCHANGED <<appContext, destroyed, ctxCaller, ctxAdapter, ctxInitCalls, lostUnexpected,
                 canvasVars, frameVars, camVars, orbitVars, gpuVars>>

\* variant of the lost handler that re-initializes whatever the reason
LostHandlerRetries_always(reason) == reason = reason

\* the lost handler (lines 105-114) for the reason a loss carries: whether it
\* calls this.initialize() again
LostHandlerRetries(reason) == reason # "destroyed"

\* a live device is lost (driver reset, GPU crash): device.lost resolves and the
\* handler runs with a reason other than 'destroyed'
DeviceLost ==
  /\ \E d \in DOMAIN devices :
       /\ devices[d] = "live"
       /\ devices' = [devices EXCEPT ![d] = "lost"]
  /\ ctxPc = "idle"
  /\ lostUnexpected' = lostUnexpected + 1
  /\ IF LostHandlerRetries("unknown")
     THEN /\ ctxInitCalls' = ctxInitCalls + 1
          /\ ctxPc' = "awaitAdapter" /\ ctxCaller' = "lost"
     ELSE UNCHANGED <<ctxInitCalls, ctxPc, ctxCaller>>
  /\ UNCHANGED <<appVars, ctxDevice, ctxAdapter, ctxCanvasCtx, ctxFailed, canvasVars, rpVars,
                 bufSet, elemWrites, frameVars, ctlVars, lastOp, camVars, orbitVars, gpuVars>>

\* beforeunload: app.destroy(); device.destroy() resolves device.lost with reason
\* 'destroyed', for which the handler only logs
Destroy ==
  /\ destroyed' = TRUE
  /\ LET loop == StopLoop(isRunning, rafPending, rafLatest)
         rp == IF appPipeline THEN RpDestroy(RpState) ELSE RpState
     IN /\ isRunning' = loop[1] /\ rafPending' = loop[2] /\ rafLatest' = loop[3]
        /\ rpPipelines' = rp.pipelines /\ rpBindGroups' = rp.bindGroups
        /\ rpTargets' = rp.targets /\ texDestroyed' = rp.texDestroyed
  /\ bufSet' = IF appBuffers THEN FALSE ELSE bufSet
  /\ elemWrites' = elemWrites
  /\ IF appContext
     THEN /\ ctxDevice' = 0 /\ ctxAdapter' = FALSE /\ ctxCanvasCtx' = FALSE
          /\ devices' = [d \in DOMAIN devices |->
                           IF d = ctxDevice /\ devices[d] = "live" THEN "destroyed"
                           ELSE devices[d]]
          /\ IF ctxDevice # 0 /\ devices[ctxDevice] = "live" /\ LostHandlerRetries("destroyed")
             THEN /\ ctxInitCalls' = ctxInitCalls + 1
                  /\ ctxPc' = "awaitAdapter" /\ ctxCaller' = "lost"
             ELSE UNCHANGED <<ctxInitCalls, ctxPc, ctxCaller>>
     ELSE UNCHANGED <<ctxDevice, ctxAdapter, ctxCanvasCtx, devices, ctxInitCalls, ctxPc, ctxCaller>>
  /\ UNCHANGED <<initPc, appContext, appBuffers, appPipeline, earthBuffers, errorShown,
                 lostUnexpected, ctxFailed, canvasVars, rpSize, texNext, frameVars, ctlVars, lastOp,
                 camVars, orbitVars, gpuVars>>

\* the window is resized: the canvas' client size changes
ClientResize ==
  /\ resizes < MaxResizes
  /\ \E s \in Sizes : s # clientSize /\ clientSize' = s
  /\ resizes' = resizes + 1
  /\ UNCHANGED <<appVars, ctxVars, canvasSize, rpVars, bufSet, elemWrites, frameVars, ctlVars, lastOp,
                 camVars, orbitVars, gpuVars>>

\* a click on view button index: UIManager -> camera.setViewMode(index)
SetViewMode ==
  /\ \E index \in 0..3 : SetController(SetViewModeTo(Controller, index))
  /\ lastOp' = "setViewMode"
  /\ CameraCallOver
  /\ UNCHANGED <<appVars, ctxVars, canvasVars, rpVars, bufSet, elemWrites, frameVars, camCallsLeft,
                 orbitVars, gpuVars>>

\* the application, its context and its pipeline after construction
InitApp ==
  /\ initPc = "new" /\ appContext = FALSE /\ appBuffers = FALSE /\ appPipeline = FALSE
  /\ earthBuffers = FALSE /\ isRunning = FALSE /\ rafPending = 0 /\ rafLatest = FALSE
  /\ errorShown = FALSE /\ destroyed = FALSE
  /\ ctxPc = "idle" /\ ctxCaller = "app" /\ ctxDevice = 0 /\ ctxAdapter = FALSE
  /\ ctxCanvasCtx = FALSE /\ devices = <<>> /\ ctxInitCalls = 0 /\ lostUnexpected = 0
  /\ ctxFailed = FALSE
  /\ canvasSize = DefaultCanvasSize /\ resizes = 0
  /\ rpPipelines = FALSE /\ rpBindGroups = Null /\ rpTargets = Null /\ rpSize = <<0, 0>>
  /\ texNext = 1 /\ texDestroyed = {}
  /\ bufSet = FALSE /\ elemWrites = 0
  /\ frameStages = <<>> /\ framePasses = <<>> /\ frameSubmitted = FALSE
  /\ frameStale = {} /\ frameThrew = FALSE

\* the camera controller after construction; nothing computed yet
InitController ==
  /\ cameraAngles = NewController.cameraAngles /\ godView = NewController.godView
  /\ mouse = NewController.mouse /\ keys = NewController.keys
  /\ fleetOffset = NewController.fleetOffset
  /\ currentMode = NewController.currentMode /\ modeIndex = NewController.modeIndex
  /\ lastOp = "none"
  /\ camOut = Null /\ camTime = 0 /\ camRepeat = "none" /\ camChanged = {}

\* nothing propagated or tracked yet
InitOrbit ==
  /\ kernelTime = 0 /\ satPos = Null /\ trackTime = 0 /\ trackPos = Null

\* nothing written to the uniform buffer and nothing drawn yet
InitDraw == uni = Null /\ vsBody = Null /\ vsOut = Null

\* the beam buffer zeroed, no lane of the beam kernel run
InitBeams == beams = NewBeams /\ beamLog = NewDispatch

\* generateOrbitalElements not yet entered
InitGen == gen = [plane |-> 0, sat |-> SATELLITES_PER_PLANE, inclination |-> 0] /\ elemData = <<>>

\* no event delivered, the callback not yet called, the position buffers not yet
\* created: a SatelliteGPUBuffer constructed with the default configuration
InitParts ==
  /\ dragHeld = FALSE /\ modeChange = Null
  /\ posPair = NewPositionBuffers(FALSE, FALSE) /\ posBound = Null /\ posData = NoPositions
  /\ pairFrames = 0 /\ pairSwaps = 0 /\ posRead = Null

InitGpu == InitDraw /\ lastTime = 0 /\ InitBeams /\ InitGen /\ InitParts

\* the element generateOrbitalElements gives satellite 0 (plane 0, slot 0) in shell
\* shellIndex: raan 0, the inclination of the 53 degree shell, mean anomaly 0
Satellite0(shellIndex) ==
  [raan |-> 0, inclination |-> 53 * 4, meanAnomaly0 |-> 0, shellData |-> ShellData(shellIndex)]

Init ==
  /\ InitApp
  /\ clientSize \in Sizes
  /\ InitController
  /\ camCallsLeft = 0
  /\ InitOrbit
  /\ InitGpu
  /\ orbElem = Satellite0(1)

Next ==
  \/ AppInitialize
  \/ CtxAdapterSettled
  \/ CtxAdapterInfoSettled
  \/ CtxDeviceSettled
  \/ DeviceLost
  \/ Destroy
  \/ ClientResize
  \/ SetViewMode
  \/ Render

Spec == Init /\ [][Next]_vars

\* ------------------------------------------------------------------------
\* The camera controller under input events, mode switches and camera computations
\* ------------------------------------------------------------------------

MaxCameraCalls == 2    \* calls of calculateCamera in a behaviour of CameraSpec

\* the events delivered: pointer positions and movements in pixels
MouseButtons == {0, 2}
ClientXs == {0}
MovementXs == {0, 720}
MovementYs == {0, 712, -712}
WheelDeltas == {5000, -5000}
KeyNames == {"w"}

\* what an input listener leaves alone besides the controller
InputFrame ==
  /\ lastOp' = "input"
  /\ CameraCallOver
  /\ UNCHANGED <<appVars, ctxVars, canvasVars, rpVars, bufSet, elemWrites, frameVars, camCallsLeft,
                 orbitVars, gpuVars>>

MouseDown ==
  /\ \E button \in MouseButtons, clientX \in ClientXs :
       SetController(OnMouseDown(Controller, [button |-> button, clientX |-> clientX,
                                              clientY |-> 0]))
  /\ InputFrame

MouseUp ==
  /\ SetController(OnMouseUp(Controller))
  /\ InputFrame

MouseMove ==
  /\ \E movementX \in MovementXs, movementY \in MovementYs, clientX \in ClientXs :
       SetController(OnMouseMove(Controller, [movementX |-> movementX, movementY |-> movementY,
                                              clientX |-> clientX, clientY |-> 0]))
  /\ InputFrame

Wheel ==
  /\ \E deltaY \in WheelDeltas : SetController(OnWheel(Controller, deltaY))
  /\ InputFrame

DblClick ==
  /\ SetController(ResetCameraAngle(Controller))
  /\ InputFrame

KeyDown ==
  /\ \E key \in KeyNames : SetController(OnKeyDown(Controller, key))
  /\ InputFrame

KeyUp ==
  /\ \E key \in KeyNames : SetController(OnKeyUp(Controller, key))
  /\ InputFrame

\* the controller's fields that differ between c and d
ChangedFields(c, d) == {f \in DOMAIN c : c[f] # d[f]}

\* one call of calculateCamera(getPosition, getVelocity, time), as writeUniforms
\* makes it each frame
CameraFrame ==
  /\ camCallsLeft > 0
  /\ camCallsLeft' = camCallsLeft - 1
  /\ \E time \in FrameTimes :
       LET r == CalculateCamera(Controller, orbElem, time)
       IN /\ fleetOffset' = r.fleetOffset
          /\ camOut' = r.camera
          /\ camTime' = time
          /\ camRepeat' = IF lastOp = "calculateCamera" /\ camTime = time
                          THEN (IF r.camera = camOut THEN "same" ELSE "differs")
                          ELSE "none"
          /\ camChanged' = ChangedFields(Controller, [Controller EXCEPT !.fleetOffset = r.fleetOffset])
  /\ lastOp' = "calculateCamera"
  /\ UNCHANGED <<appVars, ctxVars, canvasVars, rpVars, bufSet, elemWrites, frameVars, cameraAngles, godView,
                 mouse, keys, currentMode, modeIndex, orbitVars, gpuVars>>

\* the controller constructed and attached to the canvas, riding satellite 0; the
\* application's own variables play no part
CameraInit ==
  /\ InitApp
  /\ clientSize = DefaultCanvasSize
  /\ InitController
  /\ camCallsLeft = MaxCameraCalls
  /\ InitOrbit
  /\ InitGpu
  /\ orbElem = Satellite0(1)

CameraNext ==
  \/ MouseDown
  \/ MouseUp
  \/ MouseMove
  \/ Wheel
  \/ DblClick
  \/ KeyDown
  \/ KeyUp
  \/ SetViewMode
  \/ CameraFrame

CameraSpec == CameraInit /\ [][CameraNext]_vars

\* ------------------------------------------------------------------------
\* One body on host and device
\* ------------------------------------------------------------------------

\* orbital elements as generateOrbitalElements lays them out: the plane gives raan
\* and the inclination shell (53, 70, 97.6, 30 degrees, with a jitter of up to 0.004
\* rad, one quarter degree), the slot gives the mean anomaly; angles in quarter degrees
Raans == {0, 360, 1000}
Inclinations == {53 * 4 - 1, 53 * 4, 70 * 4, 390, 30 * 4 + 1}
MeanAnomalies == {0, 360, 1100}
Elements ==
  {[raan |-> r, inclination |-> i, meanAnomaly0 |-> m, shellData |-> ShellData(k)] :
     r \in Raans, i \in Inclinations, m \in MeanAnomalies, k \in 0..2}

\* simulation times, in seconds
OrbitTimes == {0, 1000, 5000}

\* one dispatch of the propagation kernel at uni.time = time, for this body
Propagate ==
  /\ \E time \in OrbitTimes :
       /\ kernelTime' = time
       /\ satPos' = OrbitalCS(orbElem, time)
  /\ UNCHANGED <<appVars, ctxVars, canvasVars, rpVars, bufSet, elemWrites, frameVars, ctlVars, lastOp,
                 camVars, orbElem, trackTime, trackPos, gpuVars>>

\* the host tracks the body: calculateSatellitePosition(index, time)
TrackBody ==
  /\ \E time \in OrbitTimes :
       /\ trackTime' = time
       /\ trackPos' = CalculateSatellitePosition(orbElem, time)
  /\ UNCHANGED <<appVars, ctxVars, canvasVars, rpVars, bufSet, elemWrites, frameVars, ctlVars, lastOp,
                 camVars, orbElem, kernelTime, satPos, gpuVars>>

OrbitInit ==
  /\ InitApp
  /\ clientSize = DefaultCanvasSize
  /\ InitController
  /\ camCallsLeft = 0
  /\ InitOrbit
  /\ InitGpu
  /\ orbElem \in Elements

OrbitNext ==
  \/ Propagate
  \/ TrackBody

OrbitSpec == OrbitInit /\ [][OrbitNext]_vars

\* ------------------------------------------------------------------------
\* The satellite pass of a frame: writeUniforms, then the vertex stage per body
\* ------------------------------------------------------------------------

\* the camera angles the input listeners have left: yaw and pitch in quarter
\* degrees, distance in km
DrawYaws == {0}
DrawPitches == {0, PITCH_LIMIT, -PITCH_LIMIT}
DrawDistances == {25000, 180000}

\* the bodies looked at: planes at raan 0 and 90 degrees, of the 53 and the 97.6
\* degree inclination shell, in the middle and in the outer altitude shell
DrawElements ==
  {[raan |-> r, inclination |-> i, meanAnomaly0 |-> m, shellData |-> ShellData(k)] :
     r \in {0, 360}, i \in {53 * 4, 390}, m \in {0, 720}, k \in {1, 2}}

\* the timestamps requestAnimationFrame hands to render, in milliseconds: frames
\* 16 ms apart, and a stall (or a stop and a later start) of 1000 s
FrameStamps == {0, 16, 1000000}

\* variant of the delta time without the clamp
DeltaTime_notClamped(time, last) == time - last

\* Math.min(time - this.lastTime, 0.1), in milliseconds
DeltaTime(time, last) == IF time - last < 100 THEN time - last ELSE 100

\* what writeUniforms leaves: the uniform buffer and the controller's fleet offset
UniformsWritten(w) == uni' = w.uni /\ fleetOffset' = w.fleetOffset

\* lines 268-277 of render(timestamp): the timing, then writeUniforms(time,
\* deltaTime); timestamps do not decrease, and time reaches the camera and the
\* kernels in whole seconds
DrawWriteUniforms ==
  /\ \E timestamp \in FrameStamps :
       /\ timestamp >= lastTime
       /\ lastTime' = timestamp
       /\ UniformsWritten(WriteUniforms(Controller, orbElem, timestamp \div 1000,
                                        DeltaTime(timestamp, lastTime), canvasSize))
  /\ lastOp' = "calculateCamera"
  /\ vsBody' = Null /\ vsOut' = Null
  /\ UNCHANGED <<appVars, ctxVars, canvasVars, rpVars, bufSet, elemWrites, frameVars, cameraAngles, godView,
                 mouse, keys, currentMode, modeIndex, camVars, orbitVars, beamVars, genVars, partVars>>

\* vs for the instance whose entry of sat_pos is wp
VertexStageAt(wp) ==
  \E step \in EnlargeSteps(uni, BodyDistance(uni, wp)) :
    vsBody' = wp /\ vsOut' = SatVs(uni, wp, step)

\* the vertex stage of the satellite pass for one instance: the position the
\* propagation kernel of the frame gave it, and what vs returns for it
DrawSatellite ==
  /\ uni # Null
  /\ \E e \in DrawElements : VertexStageAt(OrbitalCS(e, uni.time).pos)
  /\ UNCHANGED <<appVars, ctxVars, canvasVars, rpVars, bufSet, elemWrites, frameVars, ctlVars, lastOp,
                 camVars, orbitVars, uni, lastTime, beamVars, genVars, partVars>>

DrawInit ==
  /\ InitApp
  /\ clientSize = DefaultCanvasSize
  /\ \E yaw \in DrawYaws, pitch \in DrawPitches, distance \in DrawDistances :
       /\ cameraAngles = [yaw |-> yaw, pitch |-> pitch, distance |-> distance]
       /\ godView = NewController.godView
       /\ mouse = NewController.mouse
       /\ keys = {} /\ fleetOffset = Zero3
       /\ currentMode = NewController.currentMode /\ modeIndex = NewController.modeIndex
  /\ lastOp = "input"
  /\ camOut = Null /\ camTime = 0 /\ camRepeat = "none" /\ camChanged = {}
  /\ camCallsLeft = 0
  /\ InitOrbit
  /\ InitGpu
  /\ orbElem = Satellite0(1)

DrawNext ==
  \/ SetViewMode
  \/ DrawWriteUniforms
  \/ DrawSatellite

DrawSpec == DrawInit /\ [][DrawNext]_vars

\* ------------------------------------------------------------------------
\* One dispatch of the beam kernel after another
\* ------------------------------------------------------------------------

\* one invocation of main: the lanes of a dispatch run in any order
BeamLane ==
  /\ \E l \in BeamLanes, inMask \in BOOLEAN :
       /\ ~beamLog[l].ran
       /\ beamLog' = [beamLog EXCEPT ![l] = BeamMain(l, BeamParamsData.patternMode, inMask)]
       /\ beams' = BeamStore(beams, BeamMain(l, BeamParamsData.patternMode, inMask).writes)
  /\ UNCHANGED <<appVars, ctxVars, canvasVars, rpVars, bufSet, elemWrites, frameVars, ctlVars,
                 lastOp, camVars, orbitVars, drawVars, lastTime, genVars, partVars>>

\* encodeBeamComputePass of the next frame, once the lanes of this one are through
BeamDispatch ==
  /\ \A l \in BeamLanes : beamLog[l].ran
  /\ beamLog' = NewDispatch
  /\ UNCHANGED <<appVars, ctxVars, canvasVars, rpVars, bufSet, elemWrites, frameVars, ctlVars,
                 lastOp, camVars, orbitVars, drawVars, lastTime, beams, genVars, partVars>>

BeamInit ==
  /\ InitApp
  /\ clientSize = DefaultCanvasSize
  /\ InitController
  /\ camCallsLeft = 0
  /\ InitOrbit
  /\ InitGpu
  /\ orbElem = Satellite0(1)

BeamNext ==
  \/ BeamLane
  \/ BeamDispatch

BeamSpec == BeamInit /\ [][BeamNext]_vars

\* ------------------------------------------------------------------------
\* SatelliteGPUBuffer.generateOrbitalElements
\* ------------------------------------------------------------------------

\* INCLINATION_SHELLS: 53, 70, 97.6 and 30 degrees, in quarter degrees
INCLINATION_SHELLS == <<53 * 4, 70 * 4, 390, 30 * 4>>

\* (Math.random() - 0.5) * 0.008 rad, within a quarter of a degree either way
InclinationJitters == {-1, 1}

\* values of Math.random(), scaled by 1000
RandomDraws == {0, 300, 799, 800}

\* SHELL_DISTRIBUTION, scaled by 1000
SHELL_DISTRIBUTION == <<300, 500, 200>>

RECURSIVE ShellOfDrawFrom(_, _, _)
\* the loop over SHELL_DISTRIBUTION from index s with the sum so far: the first
\* shell whose cumulative share is above rand, shell 0 when there is none
ShellOfDrawFrom(rand, s, cumulative) ==
  IF s > Len(SHELL_DISTRIBUTION) THEN 0
  ELSE IF rand < cumulative + SHELL_DISTRIBUTION[s] THEN s - 1
  ELSE ShellOfDrawFrom(rand, s + 1, cumulative + SHELL_DISTRIBUTION[s])

ShellOfDraw(rand) == ShellOfDrawFrom(rand, 1, 0)

\* the vec4f stored for satellite sat of plane plane
GeneratedElement(plane, sat, inclination, shellIndex) ==
  [raan |-> (plane * FullTurn) \div NUM_PLANES,
   inclination |-> inclination,
   meanAnomaly0 |-> (sat * FullTurn) \div SATELLITES_PER_PLANE,
   shellData |-> ShellData(shellIndex)]

\* the head of the outer loop: raan and the inclination of the plane
GenPlane ==
  /\ gen.sat = SATELLITES_PER_PLANE /\ gen.plane < NUM_PLANES
  /\ Len(elemData) = gen.plane * SATELLITES_PER_PLANE
  /\ \E jitter \in InclinationJitters :
       gen' = [plane |-> gen.plane, sat |-> 0,
               inclination |-> INCLINATION_SHELLS[(gen.plane * Len(INCLINATION_SHELLS))
                                                    \div NUM_PLANES + 1] + jitter]
  /\ UNCHANGED <<appVars, ctxVars, canvasVars, rpVars, bufSet, elemWrites, frameVars, ctlVars,
                 lastOp, camVars, orbitVars, drawVars, lastTime, beamVars, elemData, partVars>>

\* one pass of the inner loop: the shell drawn, the element stored
GenSatellite ==
  /\ gen.sat < SATELLITES_PER_PLANE
  /\ \E rand \in RandomDraws :
       elemData' = Append(elemData, GeneratedElement(gen.plane, gen.sat, gen.inclination,
                                                     ShellOfDraw(rand)))
  /\ gen' = IF gen.sat + 1 = SATELLITES_PER_PLANE
            THEN [gen EXCEPT !.plane = gen.plane + 1, !.sat = SATELLITES_PER_PLANE]
            ELSE [gen EXCEPT !.sat = gen.sat + 1]
  /\ UNCHANGED <<appVars, ctxVars, canvasVars, rpVars, bufSet, elemWrites, frameVars, ctlVars,
                 lastOp, camVars, orbitVars, drawVars, lastTime, beamVars, partVars>>

GenInit ==
  /\ InitApp
  /\ clientSize = DefaultCanvasSize
  /\ InitController
  /\ camCallsLeft = 0
  /\ InitOrbit
  /\ InitGpu
  /\ orbElem = Satellite0(1)

GenNext ==
  \/ GenPlane
  \/ GenSatellite

GenSpec == GenInit /\ [][GenNext]_vars

\* ------------------------------------------------------------------------
\* The fleet offset under held keys and damping, frame after frame
\* ------------------------------------------------------------------------

\* the time of the frames (seconds); the body ridden stays where it is
FleetTimes == {0}
\* the key held: the space bar, which moves the pilot along localUp
FleetKeyNames == {" "}

FleetKeyDown ==
  /\ \E key \in FleetKeyNames : SetController(OnKeyDown(Controller, key))
  /\ InputFrame

FleetKeyUp ==
  /\ \E key \in FleetKeyNames : SetController(OnKeyUp(Controller, key))
  /\ InputFrame

\* one frame's call of calculateCamera, with no limit on the number of frames, as
\* far as the controller keeps its effect
FleetCameraFrame ==
  /\ \E time \in FleetTimes :
       fleetOffset' = OffsetAfterCamera(Controller, orbElem, time)
  /\ lastOp' = "calculateCamera"
  /\ UNCHANGED <<appVars, ctxVars, canvasVars, rpVars, bufSet, elemWrites, frameVars, cameraAngles, godView,
                 mouse, keys, currentMode, modeIndex, camVars, orbitVars, gpuVars>>

FleetInit ==
  /\ InitApp
  /\ clientSize = DefaultCanvasSize
  /\ InitController
  /\ camCallsLeft = 0
  /\ InitOrbit
  /\ InitGpu
  /\ orbElem = Satellite0(1)

FleetNext ==
  \/ FleetKeyDown
  \/ FleetKeyUp
  \/ SetViewMode
  \/ FleetCameraFrame

FleetSpec == FleetInit /\ [][FleetNext]_vars

\* ------------------------------------------------------------------------
\* Properties of the frame pipeline and of initialization
\* ------------------------------------------------------------------------

PassNames(passes) == [i \in DOMAIN passes |-> passes[i].name]

\* the passes among passes that write the resource named name
Writers(passes, name) ==
  {i \in DOMAIN passes : \E w \in passes[i].writes : w[1] = name}

\* C1: every submitted frame performs, in order and skipping none: uniform write,
\* propagation kernel, beam kernel, scene pass, bloom passes, tonemap pass, present
C1_StagesInOrder ==
  frameSubmitted =>
    frameStages = <<"uniform", "propagation", "beam", "scene", "bloom", "tonemap", "present">>

\* C1: a frame was submitted
C1_FrameSubmitted == frameSubmitted /\ Len(frameStages) > 0

\* C2: no pass of a frame is encoded against a destroyed texture, and the bind
\* groups reference no texture but the current targets
C2_NoStaleTarget ==
  /\ frameStale = {}
  /\ (rpBindGroups # Null /\ rpTargets # Null) =>
       \A g \in DOMAIN rpBindGroups :
         \A r \in rpBindGroups[g] : r[2] # 0 => r \in TargetTextures(rpTargets)

\* C2: a frame was submitted whose passes use targets created by a resize
C2_FrameAfterResize ==
  /\ frameSubmitted
  /\ texDestroyed # {}
  /\ \E i \in DOMAIN framePasses : \E r \in PassTextures(framePasses[i]) : r[2] > 4

\* C3: a submitted frame holds all its passes (propagation, scene or ground scene,
\* the three bloom passes, tonemap); a frame that threw submitted nothing
C3_AllOrNothing ==
  /\ frameSubmitted =>
       /\ ~frameThrew
       /\ PassNames(framePasses) \in
            { <<"compute", sc, "bloomThreshold", "bloomHorizontal", "bloomVertical", "composite">> :
                sc \in {"scene", "groundScene"} }
  /\ frameThrew => ~frameSubmitted

\* C3: a frame was submitted in ground mode
C3_GroundFrameSubmitted ==
  frameSubmitted /\ currentMode = "ground" /\ "groundScene" \in {framePasses[i].name : i \in DOMAIN framePasses}

\* C4 as stated: in a submitted frame the position buffer, the beam buffer, the HDR
\* target and each bloom target are written by exactly one pass
C4_ExactlyOneWriter ==
  frameSubmitted =>
    \A name \in {"positions", "beams", "hdr", "bloomA", "bloomB"} :
      Cardinality(Writers(framePasses, name)) = 1

\* C4 amended: in a submitted frame the position buffer, the HDR target and bloomB
\* are written by exactly one pass each; bloomA is written by two, the threshold
\* pass and the vertical blur, with the horizontal blur, which reads it, in
\* between; the beam buffer is written by none
C4_WritersPerFrame ==
  frameSubmitted =>
    /\ \A name \in {"positions", "hdr", "bloomB"} : Cardinality(Writers(framePasses, name)) = 1
    /\ Writers(framePasses, "bloomA") = {3, 5}
    /\ Writers(framePasses, "bloomB") = {4}
    /\ \E r \in framePasses[4].reads : r[1] = "bloomA"
    /\ Writers(framePasses, "beams") = {}

\* C4: a frame with the bloom chain was submitted
C4_BloomFrameSubmitted ==
  frameSubmitted /\ Len(framePasses) = 6 /\ framePasses[4].name = "bloomHorizontal"

C9_AtMostOneAttempt == ctxInitCalls <= 1

\* the calls of context.initialize() GrokZephyrApp.initialize has made
AppInitCalls == IF initPc = "new" THEN 0 ELSE 1

\* C9 amended: the application attempts initialization once and never again; every
\* further attempt is made by the device-lost handler, one per device lost for a
\* reason other than 'destroyed'
C9_AttemptsBounded ==
  /\ AppInitCalls <= 1
  /\ ctxInitCalls = AppInitCalls + lostUnexpected

\* C9: a start-up that failed was followed by a device loss and a second attempt
C9_SecondAttemptAfterFailure == initPc = "failed" /\ ctxInitCalls = 2

\* ------------------------------------------------------------------------
\* Properties of the camera controller
\* ------------------------------------------------------------------------

\* C5 as stated: a call of calculateCamera that repeats the call before it, with
\* nothing between and the same time, returns the same CameraState, and no call
\* changes a field of the controller
C5_PureInEveryMode == camRepeat # "differs" /\ camChanged = {}

\* C5 amended: in the horizon, god and ground modes calculateCamera changes nothing
\* and a repeated call returns the same CameraState; in the fleet mode it changes
\* fleetOffset and nothing else, and a repeated call returns the same CameraState
\* whenever it leaves fleetOffset as it was
C5_PureButFleet ==
  lastOp = "calculateCamera" =>
    /\ camChanged \subseteq {"fleetOffset"}
    /\ currentMode # "sat-pov" => (camChanged = {} /\ camRepeat # "differs")
    /\ camChanged = {} => camRepeat # "differs"

\* C5: in the fleet mode a repeated call returned another CameraState than the
\* call before it
C5_FleetRepeatDiffers ==
  lastOp = "calculateCamera" /\ currentMode = "sat-pov" /\ camRepeat = "differs"

\* C6: a step that changes yaw, pitch or distance is a step of an input listener
\* (mousemove, wheel, dblclick); setViewMode and calculateCamera leave them unchanged
C6_AnglesByInputOnly ==
  [][ /\ cameraAngles' # cameraAngles => lastOp' = "input"
      /\ lastOp' \in {"setViewMode", "calculateCamera"} => cameraAngles' = cameraAngles ]_vars

\* C6: with yaw, pitch and distance all away from their defaults, the mode was
\* switched and the camera computed
C6_MovedThenSwitchedAndComputed ==
  /\ cameraAngles.yaw # 0 /\ cameraAngles.pitch # 0 /\ cameraAngles.distance # 25000
  /\ currentMode = "god" /\ lastOp = "calculateCamera"

\* C7: setViewMode leaves the fleet offset zero and changes no field of the
\* controller but currentMode, modeIndex and fleetOffset
C7_TransitionResetsOffsetOnly ==
  [][ lastOp' = "setViewMode" =>
        /\ fleetOffset' = Zero3
        /\ UNCHANGED <<cameraAngles, godView, mouse, keys>> ]_vars

\* C7: a mode switch has just reset an offset built up in the fleet mode, with a
\* key held and the angles moved
C7_SwitchedWithOffset ==
  /\ lastOp = "setViewMode" /\ fleetOffset = Zero3 /\ camCallsLeft < MaxCameraCalls
  /\ keys # {} /\ cameraAngles.pitch # 0 /\ currentMode = "ground"

\* ------------------------------------------------------------------------
\* Properties of host and kernel positions
\* ------------------------------------------------------------------------

\* C10: when host and kernel have placed the body for the same time, they placed it
\* at the same point
C10_HostMatchesKernel ==
  (satPos # Null /\ trackPos # Null /\ kernelTime = trackTime) => satPos.pos = trackPos

\* C10: a body of the outer shell was placed by both for the same time, off its
\* starting point
C10_OuterShellPlacedByBoth ==
  /\ satPos # Null /\ trackPos # Null /\ kernelTime = trackTime /\ kernelTime > 0
  /\ orbElem.shellData \div 256 = 2
  /\ trackPos # CalculateSatellitePosition(orbElem, 0)

\* ------------------------------------------------------------------------
\* Properties of the satellite pass
\* ------------------------------------------------------------------------

\* the segment from cam to wp (units of 100 km) meets the sphere of the central
\* body at a parameter strictly between 0 and 1: a * t * t + b * t + c has a root
\* there, told from the signs at 0 and 1 and from the vertex, without square roots
SegmentCrossesSphere(camH, rayH) ==
  LET a == rayH[1] * rayH[1] + rayH[2] * rayH[2] + rayH[3] * rayH[3]
      b == 2 * (camH[1] * rayH[1] + camH[2] * rayH[2] + camH[3] * rayH[3])
      c == camH[1] * camH[1] + camH[2] * camH[2] + camH[3] * camH[3]
             - ((EARTH_RADIUS_KM + 50) \div 100) * ((EARTH_RADIUS_KM + 50) \div 100)
      g1 == a + b + c
  IN /\ a > 0
     /\ b * b - 4 * a * c >= 0
     /\ \/ (c < 0 /\ g1 > 0) \/ (c > 0 /\ g1 < 0)
        \/ (c >= 0 /\ g1 >= 0 /\ b < 0 /\ -b < 2 * a /\ (c > 0 \/ g1 > 0 \/ b * b > 4 * a * c))

\* the body of the last vertex-stage run is hidden behind the central body
BodyBehindPlanet ==
  SegmentCrossesSphere(ToHecto(uni.camera_pos),
                       V3Sub(ToHecto(vsBody), ToHecto(uni.camera_pos)))

\* C11: in a frame of the ground mode, a body whose camera-to-body segment crosses
\* the sphere of the central body strictly between its end points is not drawn
C11_HiddenBodyNotDrawn ==
  (vsOut # Null /\ ModeOfIndex(uni.view_mode) = "ground" /\ BodyBehindPlanet) => ~SatDrawn(vsOut)

\* C11: a body was drawn in a frame of the ground mode
C11_GroundBodyDrawn ==
  vsOut # Null /\ ModeOfIndex(uni.view_mode) = "ground" /\ SatDrawn(vsOut)

ClipForms(cp) ==
  <<cp[4] + cp[1], cp[4] - cp[1], cp[4] + cp[2], cp[4] - cp[2], cp[3], cp[4] - cp[3]>>

\* the body at wpKm lies outside half-space p of the frustum of vp by more than
\* margin km: its linear form, over the length of the gradient, is below -margin.
\* The gradient of the far half-space is below the resolution of the matrix entries
\* (1/1000) and that half-space is left out
OutsideHalfSpace(vp, wpKm, p, margin) ==
  /\ PlaneLength(RawFrustum(vp)[p]) > 0
  /\ ClipForms(Project(vp, wpKm))[p] < -margin * PlaneLength(RawFrustum(vp)[p])

C14_BeamsEnabledAfterFrame ==
  frameSubmitted =>
    Cardinality(EnabledBeams(beams)) = NUM_SATELLITES \div SATELLITE_STRIDE

\* C14: a frame was submitted while the beam buffer exists
C14_FrameWithBeamBuffer == frameSubmitted /\ bufSet /\ DOMAIN beams = 0..(MAX_BEAMS - 1)

\* C15: a lane i below MAX_BEAMS whose body index i * stride is not below N leaves
\* its beam disabled and reads no entry of the position buffer; a lane at or beyond
\* MAX_BEAMS writes nothing; no lane reads beyond the position buffer or writes
\* an entry other than its own
C15_OutOfRangeBeamsDisabled ==
  \A l \in BeamLanes :
    beamLog[l].ran =>
      /\ (l < MAX_BEAMS /\ l * SATELLITE_STRIDE >= NUM_SATELLITES) =>
           (beams[l].intensity = 0 /\ beams[l].sat = -1 /\ beamLog[l].reads = {})
      /\ l >= MAX_BEAMS => beamLog[l].writes = {}
      /\ \A r \in beamLog[l].reads : r < NUM_SATELLITES
      /\ \A w \in beamLog[l].writes : w[1] = l /\ l < MAX_BEAMS

\* C15: a lane past the last body and a lane past the last beam have both run
C15_OutOfRangeLanesRan ==
  /\ \E l \in BeamLanes :
       beamLog[l].ran /\ l < MAX_BEAMS /\ l * SATELLITE_STRIDE >= NUM_SATELLITES
  /\ \E l \in BeamLanes : beamLog[l].ran /\ l >= MAX_BEAMS

C17_ElementsNeverRewritten ==
  [][/\ elemWrites >= 1 => elemWrites' = elemWrites
     /\ elemWrites' # elemWrites => (~bufSet /\ bufSet' /\ initPc = "awaitCtx")]_vars

\* C17: after the upload the client size changed and a frame that resized the
\* targets and ran the propagation kernel was submitted
C17_FrameAfterUpload ==
  /\ elemWrites = 1 /\ frameSubmitted /\ resizes > 0 /\ canvasSize # DefaultCanvasSize
  /\ \E i \in DOMAIN framePasses : framePasses[i].name = "compute"

\* the plane of the body stored at place i of elemData
PlaneOfBody(i) == (i - 1) \div SATELLITES_PER_PLANE

\* C18: all bodies of one orbital plane carry the same shell tag
C18_OneShellPerPlane ==
  \A i, j \in DOMAIN elemData :
    PlaneOfBody(i) = PlaneOfBody(j) => elemData[i].shellData = elemData[j].shellData

\* C18: every plane is generated, each with more than one body
C18_AllPlanesGenerated ==
  /\ gen.plane = NUM_PLANES /\ Len(elemData) = NUM_PLANES * SATELLITES_PER_PLANE
  /\ SATELLITES_PER_PLANE > 1

\* C19: after any sequence of drags, wheel turns and resets, in every mode, the pitch
\* is within 89 degrees either way, the yaw is at least 0 and below 360 degrees,
\* and the distance is within [500, 180000]
C19_AnglesWithinRanges ==
  /\ cameraAngles.pitch >= -(89 * 4) /\ cameraAngles.pitch <= 89 * 4
  /\ cameraAngles.yaw >= 0 /\ cameraAngles.yaw < 360 * 4
  /\ cameraAngles.distance >= 500 /\ cameraAngles.distance <= 180000

\* C19: a drag has wrapped the yaw and driven the pitch to its limit, and the wheel has
\* driven the distance to its lower limit
C19_DraggedAndZoomedToLimits ==
  /\ lastOp = "input"
  /\ cameraAngles.yaw = 720 /\ cameraAngles.pitch = -(89 * 4)
  /\ cameraAngles.distance = 500

\* C20: the delta time written to the frame uniform is never above 100 ms, whatever
\* the gap between two frame callbacks, the first frame and frames after a stall
\* included
C20_DeltaTimeCapped == uni # Null => uni.delta_time <= 100

\* C20: the uniform is written by a frame that came more than 100 ms after the one
\* before it (or after construction), and carries the cap
C20_FrameAfterStall ==
  /\ uni # Null /\ lastOp = "calculateCamera"
  /\ lastTime = 1000000 /\ uni.delta_time = 100

\* the horizon camera was just computed from yaw 0 and pitch 0
HorizonAtRest ==
  /\ lastOp = "calculateCamera" /\ currentMode = "horizon-720"
  /\ cameraAngles.yaw = 0 /\ cameraAngles.pitch = 0

\* C21: in the horizon mode with yaw 0 and pitch 0 the camera position lies on the
\* reference (x) axis at the fixed horizon radius, and the target lies on that same
\* axis at a larger radius
C21_TargetOnReferenceAxis ==
  HorizonAtRest =>
    /\ camOut.position = <<CAMERA_RADIUS_KM * 1000, 0, 0>>
    /\ camOut.target[2] = 0 /\ camOut.target[3] = 0
    /\ camOut.target[1] > camOut.position[1]

\* C21 amended: the position lies on the x axis at the horizon radius; the target
\* lies 1000 km further out along the axis and 5000 km off it along z
C21_TargetAboveReferenceAxis ==
  HorizonAtRest =>
    /\ camOut.position = <<CAMERA_RADIUS_KM * 1000, 0, 0>>
    /\ camOut.target = <<(CAMERA_RADIUS_KM + 1000) * 1000, 0, 5000 * 1000>>

\* C21: calculateCamera has returned the horizon camera for yaw 0 and pitch 0
C21_HorizonAtRestComputed ==
  HorizonAtRest /\ camOut # Null /\ camCallsLeft < MaxCameraCalls

\* the scene passes among the passes of a frame
ScenePassesOf(passes) ==
  SelectSeq(passes, LAMBDA p : p.name \in {"scene", "groundScene"})

\* C22: a frame run in the ground mode encodes the ground variant of the scene pass,
\* which draws neither the central-body mesh nor the atmosphere shell; a frame run in
\* any other mode encodes the orbit-view pass, which draws background, body mesh,
\* atmosphere, billboards and beams in this order
C22_ScenePassByMode ==
  [][ (framePasses' # framePasses /\ framePasses' # <<>>) =>
        LET scene == ScenePassesOf(framePasses')
        IN /\ Len(scene) = 1
           /\ IF currentMode' = "ground"
              THEN /\ scene[1].name = "groundScene"
                   /\ \A d \in DOMAIN scene[1].draws :
                        scene[1].draws[d] \notin {"earth", "atmosphere"}
              ELSE /\ scene[1].name = "scene"
                   /\ scene[1].draws = <<"stars", "earth", "atmosphere", "satellites", "beam">>
    ]_vars

\* C22: a submitted frame of the ground mode, with its ground scene pass
C22_GroundFrameSubmitted ==
  /\ frameSubmitted /\ currentMode = "ground"
  /\ \E i \in DOMAIN framePasses : framePasses[i].name = "groundScene"

\* the textures a pass samples, and the passes of a frame with a given name
SampledBy(p) == {r \in p.reads : r[2] # 0}
PassesNamed(passes, name) == SelectSeq(passes, LAMBDA p : p.name = name)

\* C23: in every submitted frame the threshold pass samples the HDR target the scene
\* pass rendered, the horizontal blur samples exactly what the threshold pass
\* rendered, the vertical blur exactly what the horizontal blur rendered, the tonemap
\* pass samples what the vertical blur rendered, and none of them samples a texture
\* it renders into; resizes between frames included
C23_BloomChainFeedsForward ==
  frameSubmitted =>
    LET scene == ScenePassesOf(framePasses)
        thr == PassesNamed(framePasses, "bloomThreshold")
        hor == PassesNamed(framePasses, "bloomHorizontal")
        ver == PassesNamed(framePasses, "bloomVertical")
        tone == PassesNamed(framePasses, "composite")
    IN /\ Len(scene) = 1 /\ Len(thr) = 1 /\ Len(hor) = 1 /\ Len(ver) = 1 /\ Len(tone) = 1
       /\ SampledBy(thr[1]) = {r \in scene[1].writes : r[1] = "hdr"}
       /\ SampledBy(hor[1]) = thr[1].writes
       /\ SampledBy(ver[1]) = hor[1].writes
       /\ ver[1].writes \subseteq SampledBy(tone[1])
       /\ \A p \in {thr[1], hor[1], ver[1], tone[1]} : SampledBy(p) \cap p.writes = {}

\* C23: a frame with the bloom chain was submitted after a resize replaced the targets
C23_BloomFrameAfterResize ==
  /\ frameSubmitted /\ PassesNamed(framePasses, "bloomVertical") # <<>>
  /\ resizes >= 1 /\ rpSize = clientSize
  /\ rpTargets # Null /\ rpTargets.bloomA > 3
  /\ <<"bloomA", rpTargets.bloomA>> \in PassesNamed(framePasses, "bloomVertical")[1].writes

\* the square of the length of a vector in metres, and of the fleet offset
LenSq(v) == v[1] * v[1] + v[2] * v[2] + v[3] * v[3]
OffsetSq == LenSq(fleetOffset)

\* C24: in the fleet mode every frame run while no movement key is held shortens the
\* offset to at most 0.98 of its length (component by component), so that it shrinks on every frame and
\* converges to zero geometrically; whatever keys are held, the offset stays within
\* 49 frames' worth of movement on each of the three axes
C24_OffsetDampedAndBounded ==
  /\ [](OffsetSq <= 3 * (49 * FLEET_MOVE_SPEED) * (49 * FLEET_MOVE_SPEED))
  /\ [][ (lastOp' = "calculateCamera" /\ currentMode = "sat-pov" /\ keys = {})
           => /\ \A i \in 1..3 : 100 * Abs(fleetOffset'[i]) <= 98 * Abs(fleetOffset[i])
              /\ fleetOffset # Zero3 => LenSq(fleetOffset') < LenSq(fleetOffset) ]_vars

\* C24: the key released, frames have damped the offset to less than 10 m, which is
\* less than one frame of movement leaves
C24_OffsetNearlyDamped ==
  /\ currentMode = "sat-pov" /\ keys = {} /\ lastOp = "calculateCamera"
  /\ OffsetSq > 0 /\ OffsetSq < 10 * 10

\* ------------------------------------------------------------------------
\* The listeners of the canvas and the mode-change callback
\* ------------------------------------------------------------------------

\* the integers setViewMode is called with: the four buttons of the panel and
\* indices beside them
ViewModeArgs == -1 .. 5

\* VIEW_MODES of constants.ts
VIEW_MODES ==
  << [id |-> 0, name |-> "720km Horizon", altitude |-> "720"],
     [id |-> 1, name |-> "God View", altitude |-> "---"],
     [id |-> 2, name |-> "Fleet POV", altitude |-> "550"] >>

\* VIEW_MODES[index] || VIEW_MODES[0]
ViewModeConfig(index) ==
  IF index + 1 \in DOMAIN VIEW_MODES THEN VIEW_MODES[index + 1] ELSE VIEW_MODES[1]

\* the callback main.ts registers with onModeChange, called at the end of
\* setViewMode(index) on the controller c that setViewMode has updated: the name and
\* altitude the panel shows and the button setActiveButton(getViewModeIndex()) marks
ModeChangeCallback(c, index) ==
  [mode |-> c.currentMode,
   name |-> ViewModeConfig(index).name,
   altitude |-> ViewModeConfig(index).altitude,
   activeButton |-> IF c.modeIndex \in 0..3 THEN c.modeIndex ELSE -1]

\* what a listener of the canvas leaves alone besides the controller and the record
\* of the drag
PointerFrame(op) ==
  /\ lastOp' = op
  /\ CameraCallOver
  /\ UNCHANGED <<appVars, ctxVars, canvasVars, rpVars, bufSet, elemWrites, frameVars, camCallsLeft,
                 orbitVars, drawVars, lastTime, beamVars, genVars, modeChange, pairVars>>

\* mousedown on the canvas
PointerDown ==
  /\ \E button \in MouseButtons, clientX \in ClientXs :
       /\ SetController(OnMouseDown(Controller, [button |-> button, clientX |-> clientX,
                                                 clientY |-> 0]))
       /\ dragHeld' = (dragHeld \/ button = 0)
  /\ PointerFrame("mousedown")

\* mouseup on the window, whatever the button
PointerUp ==
  /\ SetController(OnMouseUp(Controller))
  /\ dragHeld' = FALSE
  /\ PointerFrame("mouseup")

\* mousemove on the window
PointerMove ==
  /\ \E movementX \in MovementXs, movementY \in MovementYs, clientX \in ClientXs :
       SetController(OnMouseMove(Controller, [movementX |-> movementX, movementY |-> movementY,
                                              clientX |-> clientX, clientY |-> 0]))
  /\ UNCHANGED dragHeld
  /\ PointerFrame("mousemove")

\* setViewMode(index) with the callback of main.ts registered
SetViewModeCall ==
  /\ \E index \in ViewModeArgs :
       /\ SetController(SetViewModeTo(Controller, index))
       /\ modeChange' = ModeChangeCallback(SetViewModeTo(Controller, index), index)
  /\ lastOp' = "setViewMode"
  /\ CameraCallOver
  /\ UNCHANGED <<appVars, ctxVars, canvasVars, rpVars, bufSet, elemWrites, frameVars, camCallsLeft,
                 orbitVars, drawVars, lastTime, beamVars, genVars, dragHeld, pairVars>>

InputInit == CameraInit

InputNext ==
  \/ PointerDown
  \/ PointerUp
  \/ PointerMove
  \/ Wheel
  \/ DblClick
  \/ SetViewModeCall

InputSpec == InputInit /\ [][InputNext]_vars

\* C25: a mousemove changes the controller only during a drag, that is after a
\* mousedown of the primary button on the canvas with no mouseup since: outside a drag
\* it leaves yaw, pitch and every other field of the controller as they were, and
\* the controller's own flag of the drag agrees with the events at every moment
C25_MoveOnlyWhileDragging ==
  /\ [](mouse.down = dragHeld)
  /\ [][ (lastOp' = "mousemove" /\ ~dragHeld) => UNCHANGED ctlVars ]_vars
  /\ [][ (lastOp' = "mousemove" /\ cameraAngles' # cameraAngles) => dragHeld ]_vars

\* a mousemove outside a drag, after an earlier drag has turned the camera
C25_MoveOutsideDrag ==
  /\ lastOp = "mousemove" /\ ~dragHeld
  /\ cameraAngles.yaw # 0 /\ cameraAngles.pitch # 0

\* the mode a name or an altitude of VIEW_MODES stands for (-1: none)
ModeNamed(name) ==
  IF \E k \in DOMAIN VIEW_MODES : VIEW_MODES[k].name = name
  THEN (CHOOSE k \in DOMAIN VIEW_MODES : VIEW_MODES[k].name = name) - 1
  ELSE -1
ModeOfAltitude(altitude) ==
  IF \E k \in DOMAIN VIEW_MODES : VIEW_MODES[k].altitude = altitude
  THEN (CHOOSE k \in DOMAIN VIEW_MODES : VIEW_MODES[k].altitude = altitude) - 1
  ELSE -1

\* C26: after every call setViewMode(i) the active mode, the index getViewModeIndex()
\* reports, and the name and the altitude handed to the mode-change callback stand
\* for the same one of the four modes 0..3
C26_ModeIndexNameAgree ==
  (lastOp = "setViewMode" /\ modeChange # Null) =>
    \E k \in 0..3 :
      /\ currentMode = ModeOfIndex(k) /\ modeChange.mode = currentMode
      /\ modeIndex = k
      /\ ModeNamed(modeChange.name) = k
      /\ ModeOfAltitude(modeChange.altitude) = k

\* setViewMode(3), the fourth button: the ground mode active and reported, the
\* callback called with the name and altitude of the horizon mode
C26_GroundShownAsHorizon ==
  /\ lastOp = "setViewMode" /\ currentMode = "ground" /\ modeIndex = 3
  /\ modeChange # Null /\ modeChange.name = "720km Horizon" /\ modeChange.altitude = "720"
  /\ modeChange.activeButton = 3

\* C27: once destroy() has been called no frame is encoded or submitted: a step
\* that runs a frame after it records no pass and no submission
C27_NoFrameAfterDestroy ==
  [][ (destroyed /\ frameVars' # frameVars) => (framePasses' = <<>> /\ ~frameSubmitted') ]_vars

\* destroy() was called while initialize() awaited the context; initialize() then
\* ran to its end, started the loop, and a frame was encoded and submitted
C27_FrameAfterDestroy ==
  /\ destroyed /\ initPc = "done" /\ isRunning
  /\ frameSubmitted /\ framePasses # <<>>

\* ------------------------------------------------------------------------
\* The render loop under calls of start() and stop()
\* ------------------------------------------------------------------------

\* what start() and stop() leave alone
LoopFrame ==
  UNCHANGED <<initPc, appContext, appBuffers, appPipeline, earthBuffers, errorShown, destroyed,
              ctxVars, canvasVars, rpVars, bufSet, elemWrites, frameVars, ctlVars, lastOp,
              camVars, orbitVars, gpuVars>>

\* a call of the public start()
StartCall ==
  /\ LET loop == StartLoop(isRunning, rafPending, rafLatest)
     IN isRunning' = loop[1] /\ rafPending' = loop[2] /\ rafLatest' = loop[3]
  /\ LoopFrame

\* a call of the public stop()
StopCall ==
  /\ LET loop == StopLoop(isRunning, rafPending, rafLatest)
     IN isRunning' = loop[1] /\ rafPending' = loop[2] /\ rafLatest' = loop[3]
  /\ LoopFrame

LoopNext ==
  \/ AppInitialize
  \/ CtxAdapterSettled
  \/ CtxAdapterInfoSettled
  \/ CtxDeviceSettled
  \/ DeviceLost
  \/ Destroy
  \/ Render
  \/ StartCall
  \/ StopCall

LoopSpec == Init /\ [][LoopNext]_vars

\* C28: at most one animation-frame callback is pending at any moment, whatever the
\* order of start(), stop() and frame callbacks; while the loop is stopped none is
\* pending and no step runs a frame
C28_OneRenderLoop ==
  /\ [](rafPending \in {0, 1})
  /\ [](~isRunning => rafPending = 0)
  /\ [][ ~isRunning => frameVars' = frameVars ]_vars

\* the loop stopped by stop() after it has rendered, with start() available again
C28_StoppedAfterFrames ==
  /\ ~isRunning /\ ~destroyed /\ initPc = "done"
  /\ frameSubmitted /\ rafPending = 0

\* C29: while isRunning is set the loop is alive: an animation-frame callback is
\* pending after start() and after every frame callback, so the running flag is
\* never left set with nothing scheduled
C29_RunningLoopScheduled == isRunning => rafPending > 0

\* a frame callback has thrown before its last statement: nothing is scheduled and
\* isRunning is still set, with the application neither stopped nor destroyed
C29_LoopEndedSilently ==
  /\ isRunning /\ rafPending = 0 /\ ~destroyed
  /\ initPc = "done" /\ frameThrew

\* ------------------------------------------------------------------------
\* The position buffers of SatelliteGPUBuffer and the bind groups that use them
\* ------------------------------------------------------------------------

MaxPairFrames == 3   \* frames run on the position buffers
MaxPairSwaps == 3    \* calls of swapBuffers

\* isBufferPair(this.buffers.positions)
IsBufferPair(p) == p.created /\ p.doubleBuffer

\* getPositionBufferForRender()
GetPositionBufferForRender(p) ==
  IF IsBufferPair(p) THEN (IF p.current = "read" THEN "read" ELSE "write") ELSE "single"

\* getPositionBufferForCompute()
GetPositionBufferForCompute(p) ==
  IF IsBufferPair(p) THEN (IF p.current = "read" THEN "write" ELSE "read") ELSE "single"

\* swapBuffers()
SwapBuffers(p) ==
  IF ~IsBufferPair(p) THEN p
  ELSE [p EXCEPT !.current = IF p.current = "read" THEN "write" ELSE "read"]

\* posBuffer of createBindGroups: the buffer itself, or the member read of a pair
BoundPositionBuffer(p) == IF p.doubleBuffer THEN "read" ELSE "single"

\* the entries of createBindGroups that hold the position buffer: binding 2 of
\* compute, binding 1 of beamCompute, binding 1 of satellites
PositionBindings(p) ==
  [compute |-> BoundPositionBuffer(p), beamCompute |-> BoundPositionBuffer(p),
   satellites |-> BoundPositionBuffer(p)]

\* what the actions on the position buffers leave alone
PairFrame ==
  UNCHANGED <<appVars, ctxVars, canvasVars, rpVars, bufSet, elemWrites, frameVars, ctlVars, lastOp,
              camVars, orbitVars, drawVars, lastTime, beamVars, genVars, dragHeld, modeChange>>

\* SatelliteGPUBuffer.initialize()
PairInitialize ==
  /\ ~posPair.created
  /\ posPair' = [posPair EXCEPT !.created = TRUE]
  /\ UNCHANGED <<posBound, posData, pairFrames, pairSwaps, posRead>>
  /\ PairFrame

\* RenderPipeline.initialize() or resize(): createBindGroups()
PairBind ==
  /\ posPair.created
  /\ posBound' = PositionBindings(posPair)
  /\ posBound' # posBound
  /\ UNCHANGED <<posPair, posData, pairFrames, pairSwaps, posRead>>
  /\ PairFrame

\* a call of swapBuffers()
PairSwap ==
  /\ pairSwaps < MaxPairSwaps
  /\ pairSwaps' = pairSwaps + 1
  /\ posPair' = SwapBuffers(posPair)
  /\ UNCHANGED <<posBound, posData, pairFrames, posRead>>
  /\ PairFrame

\* a frame: the propagation kernel writes this frame's positions through binding 2
\* of the compute bind group; the draw of the same frame reads binding 1 of the
\* satellites bind group
PairRender ==
  /\ posBound # Null
  /\ pairFrames < MaxPairFrames
  /\ pairFrames' = pairFrames + 1
  /\ posData' = [posData EXCEPT ![posBound.compute] = pairFrames + 1]
  /\ UNCHANGED <<posPair, posBound, pairSwaps, posRead>>
  /\ PairFrame

\* readbackPositions(): null without buffers or with readback disabled, else a copy
\* of the buffer getPositionBufferForRender() names
PairReadback ==
  /\ posRead' = IF ~posPair.created \/ ~posPair.enableReadback THEN Null
                ELSE [frame |-> posData[GetPositionBufferForRender(posPair)]]
  /\ posRead' # posRead
  /\ UNCHANGED <<posPair, posBound, posData, pairFrames, pairSwaps>>
  /\ PairFrame

\* a SatelliteGPUBuffer constructed with either setting of doubleBuffer and
\* enableReadback
PairInit ==
  /\ InitApp
  /\ clientSize = DefaultCanvasSize
  /\ InitController
  /\ camCallsLeft = 0
  /\ InitOrbit
  /\ InitDraw /\ lastTime = 0 /\ InitBeams /\ InitGen
  /\ orbElem = Satellite0(1)
  /\ dragHeld = FALSE /\ modeChange = Null
  /\ \E doubleBuffer \in BOOLEAN, enableReadback \in BOOLEAN :
       posPair = NewPositionBuffers(doubleBuffer, enableReadback)
  /\ posBound = Null /\ posData = NoPositions
  /\ pairFrames = 0 /\ pairSwaps = 0 /\ posRead = Null

PairNext ==
  \/ PairInitialize
  \/ PairBind
  \/ PairSwap
  \/ PairRender
  \/ PairReadback

PairSpec == PairInit /\ [][PairNext]_vars

\* the two roles of a pair name different buffers, and a swap exchanges them
PairRolesDistinct ==
  IsBufferPair(posPair) =>
    GetPositionBufferForRender(posPair) # GetPositionBufferForCompute(posPair)
PairSwapExchanges ==
  [][ (pairSwaps' # pairSwaps /\ IsBufferPair(posPair)) =>
        /\ GetPositionBufferForRender(posPair') = GetPositionBufferForCompute(posPair)
        /\ GetPositionBufferForCompute(posPair') = GetPositionBufferForRender(posPair)
        /\ SwapBuffers(posPair') = posPair ]_vars

\* C30: for a double-buffered pair the buffer for compute writing and the buffer
\* for render reading are distinct at every moment, each swap exchanges the two
\* roles so that two swaps restore the assignment, and the buffer bound to the
\* propagation kernel is the one for compute writing and the buffer bound to the
\* billboard draw the one for render reading
C30_BindingsFollowRoles ==
  /\ []PairRolesDistinct
  /\ PairSwapExchanges
  /\ []((IsBufferPair(posPair) /\ posBound # Null) =>
          /\ posBound.compute = GetPositionBufferForCompute(posPair)
          /\ posBound.satellites = GetPositionBufferForRender(posPair))

\* a pair after one swap and three frames: the kernel and the draw are bound to the
\* same buffer, the buffer for render reading has never been written, and
\* readbackPositions() returns its zeros
C30_RenderRoleNeverWritten ==
  /\ IsBufferPair(posPair) /\ posBound # Null /\ posBound.compute = posBound.satellites
  /\ pairSwaps = 1 /\ pairFrames = MaxPairFrames
  /\ posData[GetPositionBufferForRender(posPair)] = 0
  /\ posRead = [frame |-> 0]
====
